---- MODULE Spec2Model ----
(***************************************************************************)
(* Model of the tool-server connection and invocation subsystem of NPBot:  *)
(*   - LazyMCPManager (src/mcpManagerLazy.js): one persistent connection   *)
(*     per server name, established on demand, with deduplication of       *)
(*     overlapping connection attempts;                                    *)
(*   - MCPManager (src/mcpManager.js): one child process per discovery or  *)
(*     invocation call, driven by fixed-delay timers.                      *)
(* Asynchronous JavaScript is modelled at the granularity of its           *)
(* suspension points: the code between two awaits (or inside one event     *)
(* handler / timer callback) is one atomic action.                         *)
(***************************************************************************)
EXTENDS Naturals, Sequences, FiniteSets, TLC

\* ------------------------------------------------------------------ bounds
\* Number of _doConnect attempts (child processes) LazyMCPManager may start.
MaxAttempts == 2
\* Number of concurrent callers of LazyMCPManager's connect path.
NumCallers == 2
\* Number of concurrent callers while cleanup() may run.
NumCleanupCallers == 2
\* Number of MCPManager calls (child processes) that may exist at the same time.
MaxCalls == 2
\* Number of stdout lines a child process may emit during one call.
MaxLines == 2
\* Number of entries of the args of a configuration entry.
MaxArgs == 2

Callers == 1..NumCallers
CallIds == 1..MaxCalls
AttemptIds == 1..MaxAttempts
None == 0

\* Server names of the configuration (mcp_config.json); the two names the
\* source itself knows are used.  "unlisted" is a name absent from the
\* configuration.
Servers == {"weather", "employees-server"}
UnknownServer == "unlisted"
\* A name that is not a key of the configuration and that every JavaScript
\* object inherits from Object.prototype.
InheritedKeys == {"constructor"}
\* The names the maps of LazyMCPManager may be asked about with a truthy
\* configuration entry.
LazyNames == Servers \cup InheritedKeys

\* Tool lists a server may announce (tool names only; schemas are opaque).
NoTools == << >>
ToolLists == {NoTools, <<"get_alerts", "get_forecast">>}
\* An entry of result.tools that is null, and a list that has one.
NullEntry == "null"
BrokenTools == <<"get_alerts", NullEntry>>

VARIABLES
    \* ---- LazyMCPManager
    connectedServers,    \* serverName -> serverInfo (identified by its attempt), or None
    connectedKeys,       \* insertion order of the keys of connectedServers
    connectionPromises,  \* serverName -> promise of the attempt in progress, or None
    attempts,            \* attempt id -> state of that _doConnect invocation
    caller,              \* caller id -> position of that caller's async call
    cleanupSt,           \* position of the cleanup() call
    config,              \* server names of the loaded configuration (immutable)
    clients,             \* callers that use the manager in this run (immutable)
    \* ---- MCPManager
    servers,             \* this.servers: serverName -> server record, or Absent
    serverKeys,          \* insertion order of the keys of this.servers
    serverTools,         \* this.serverTools: serverName -> tool list, or Absent
    initSt,              \* position of the initialize() call
    calls,               \* call slot -> state of one discoverServerTools /
                         \* executeServerTool invocation (its closure variables)
    slots,               \* call slots usable in this run (immutable)
    serverArgs,          \* serverName -> args of its configuration entry (immutable)
    emits,               \* lines the configured server programs can print (immutable)
    \* ---- callers of the managers
    query,               \* caller id -> position of that caller's processUserQuery call
    lastReturn           \* what the last synchronous read-only operation returned

mgrVars == <<servers, serverKeys, serverTools, initSt, calls, slots, serverArgs, emits>>

botVars == <<query, lastReturn>>

vars == <<connectedServers, connectedKeys, connectionPromises, attempts,
          caller, cleanupSt, config, clients, mgrVars, botVars>>

lazyVars == <<connectedServers, connectedKeys, connectionPromises, attempts,
              caller, cleanupSt, config, clients>>

\* ------------------------------------------------------- LazyMCPManager
\* connects / lists: number of client.connect and client.listTools calls made
\* on the client of the attempt.
UnusedAttempt == [server |-> "-", st |-> "unused", proc |-> "none",
                  closeCalled |-> FALSE, clientClosed |-> FALSE, transportClosed |-> FALSE,
                  tools |-> NoTools, connects |-> 0, lists |-> 0]

\* pc: idle | awaitStart | awaitJoin | awaitCall (suspended) |
\*     reused (connectToServer returned the stored connection at once) |
\*     returned | threw (connectToServer / getToolsFromServer done after an await) |
\*     callReturned | callThrew | callTimedOut (executeServerTool done) |
\*     notConnected | notFound | configError (thrown before anything was started).
\* att: the attempt awaited, or whose serverInfo / error was delivered.
IdleCaller == [pc |-> "idle", att |-> None]

\* processUserQuery of a caller, not running.  pc: the await at which the call
\* is suspended; tsr: toolSelectionResponse.serverName ("-" while the response
\* is null); replies: what context.sendActivity was called with, in order;
\* llm: number of queryOllama(query) calls of the direct path.
IdleQuery == [pc |-> "idle", tsr |-> "-", replies |-> << >>, llm |-> 0]

\* The attempts started so far are 1..UsedAttempts.
UsedAttempts == Cardinality({a \in AttemptIds : attempts[a].st # "unused"})

\* An attempt whose promise is still pending (spawn + handshake + tools/list).
InFlight(a) == attempts[a].st \in {"connecting", "listing"}
Settled(a)  == attempts[a].st \in {"resolved", "rejected"}

InFlightAttempts(s) == {a \in AttemptIds : attempts[a].server = s /\ InFlight(a)}
LiveProcesses(s) == {a \in AttemptIds : attempts[a].server = s /\ attempts[a].proc = "alive"}

\* A caller may begin a new call when it is not suspended in one.
Free(c) == c \in clients /\ caller[c].pc \notin {"awaitStart", "awaitJoin", "awaitCall"}

\* if (this.connectedServers.has(serverName))
AlreadyConnectedNever(s) == FALSE
AlreadyConnected(s) == connectedServers[s] # None

\* if (this.connectionPromises.has(serverName))
ConnectionInProgressNever(s) == FALSE
ConnectionInProgress(s) == connectionPromises[s] # None

\* this.connectionPromises.delete(serverName)
DeleteMarkerForgotten(m, s) == m
DeleteMarker(m, s) == [m EXCEPT ![s] = None]

\* What `await connectionPromise` yields once attempt a has settled: the
\* serverInfo object of that attempt is returned, or its error is thrown.
AwaitedOutcomeSwallows(a) == [pc |-> "returned", att |-> a]
AwaitedOutcome(a) ==
    [pc |-> IF attempts[a].st = "resolved" THEN "returned" ELSE "threw", att |-> a]

\* _doConnect, synchronous part: the transport and the client are created and
\* client.connect(transport) is called, which starts the child process.  The
\* process either starts or fails to start (then connect will reject).
StartDoConnect(a, s, started) ==
    attempts' = [attempts EXCEPT ![a] =
                    [server |-> s, st |-> "connecting",
                     proc |-> IF started THEN "alive" ELSE "none",
                     closeCalled |-> FALSE, clientClosed |-> FALSE, transportClosed |-> FALSE,
                     tools |-> NoTools, connects |-> 1, lists |-> 0]]

\* connectToServer up to its first suspension point, for caller c.
ConnectSync(c, s) ==
    IF AlreadyConnected(s)
    THEN /\ caller' = [caller EXCEPT ![c] = [pc |-> "reused", att |-> connectedServers[s]]]
         /\ UNCHANGED <<connectionPromises, attempts>>
    ELSE IF ConnectionInProgress(s)
    THEN /\ caller' = [caller EXCEPT ![c] = [pc |-> "awaitJoin", att |-> connectionPromises[s]]]
         /\ UNCHANGED <<connectionPromises, attempts>>
    ELSE /\ UsedAttempts < MaxAttempts
         /\ LET a == UsedAttempts + 1 IN
            /\ \E started \in BOOLEAN :
                  \* serverConfig.command of an inherited entry is undefined
                  /\ s \in InheritedKeys => ~started
                  /\ StartDoConnect(a, s, started)
            /\ connectionPromises' = [connectionPromises EXCEPT ![s] = a]
            /\ caller' = [caller EXCEPT ![c] = [pc |-> "awaitStart", att |-> a]]

connectToServer(c, s) ==
    /\ Free(c)
    /\ s \in config
    /\ ConnectSync(c, s)
    /\ UNCHANGED <<connectedServers, connectedKeys, cleanupSt, config, clients, mgrVars, botVars>>

\* getToolsFromServer: the configuration lookup, then connectToServer; the
\* descriptors returned are built from the tools of the serverInfo received.
\* config[serverName]: a property lookup on the object parsed from the
\* configuration file, which finds inherited properties too.
ConfigEntry(s) == s \in config \/ s \in InheritedKeys

GetToolsSync(c, s) ==
    IF ~ConfigEntry(s)
    THEN /\ caller' = [caller EXCEPT ![c] = [pc |-> "notFound", att |-> None]]
         /\ UNCHANGED <<connectionPromises, attempts>>
    ELSE ConnectSync(c, s)

getToolsFromServer(c, s) ==
    /\ Free(c)
    /\ GetToolsSync(c, s)
    /\ UNCHANGED <<connectedServers, connectedKeys, cleanupSt, config, clients, mgrVars, botVars>>

\* await client.connect(transport) resolves: the handshake succeeded;
\* _doConnect goes on to client.listTools().
\* const toolsResponse = await client.listTools(): the one tools/list request
\* of the connection.
CallListToolsTwice(r) == [r EXCEPT !.st = "listing", !.lists = @ + 2]
CallListTools(r) == [r EXCEPT !.st = "listing", !.lists = @ + 1]

ConnectResolves(a) ==
    /\ attempts[a].st = "connecting"
    /\ attempts[a].proc = "alive"
    /\ attempts' = [attempts EXCEPT ![a] = CallListTools(@)]
    /\ UNCHANGED <<connectedServers, connectedKeys, connectionPromises, caller,
                   cleanupSt, config, clients, mgrVars, botVars>>

\* await client.connect(transport) rejects (spawn failure, handshake failure):
\* the catch block logs and rethrows; nothing is closed by _doConnect.
ConnectRejects(a) ==
    /\ attempts[a].st = "connecting"
    /\ attempts' = [attempts EXCEPT ![a].st = "rejected"]
    /\ UNCHANGED <<connectedServers, connectedKeys, connectionPromises, caller,
                   cleanupSt, config, clients, mgrVars, botVars>>

\* await client.listTools() resolves: serverInfo is stored
\* (this.connectedServers.set(serverName, serverInfo)) and returned.
ListToolsResolves(a, tools) ==
    /\ attempts[a].st = "listing"
    /\ attempts[a].proc = "alive"
    /\ attempts' = [attempts EXCEPT ![a].st = "resolved", ![a].tools = tools]
    /\ connectedServers' = [connectedServers EXCEPT ![attempts[a].server] = a]
    /\ connectedKeys' = IF connectedServers[attempts[a].server] # None
                        THEN connectedKeys
                        ELSE Append(connectedKeys, attempts[a].server)
    /\ UNCHANGED <<connectionPromises, caller, cleanupSt, config, clients, mgrVars, botVars>>

\* await client.listTools() rejects: rethrown, no entry is stored.
ListToolsRejects(a) ==
    /\ attempts[a].st = "listing"
    /\ attempts' = [attempts EXCEPT ![a].st = "rejected"]
    /\ UNCHANGED <<connectedServers, connectedKeys, connectionPromises, caller,
                   cleanupSt, config, clients, mgrVars, botVars>>

\* The child process of an attempt exits by itself (crash, remote end gone).
ProcessExits(a) ==
    /\ attempts[a].proc = "alive"
    /\ attempts' = [attempts EXCEPT ![a].proc = "dead"]
    /\ UNCHANGED <<connectedServers, connectedKeys, connectionPromises, caller,
                   cleanupSt, config, clients, mgrVars, botVars>>

\* The caller that started the attempt resumes after `await connectionPromise`:
\* it deletes the marker of its server name and returns / rethrows.
StarterResumes(c) ==
    /\ caller[c].pc = "awaitStart"
    /\ Settled(caller[c].att)
    /\ connectionPromises' = DeleteMarker(connectionPromises, attempts[caller[c].att].server)
    /\ caller' = [caller EXCEPT ![c] = AwaitedOutcome(caller[c].att)]
    /\ UNCHANGED <<connectedServers, connectedKeys, attempts, cleanupSt, config, clients, mgrVars, botVars>>

\* What a caller that found the marker receives:
\* return await this.connectionPromises.get(serverName)
JoinerGetsNothing(a) == [pc |-> "returned", att |-> None]
JoinerOutcome(a) == AwaitedOutcome(a)

JoinerResumes(c) ==
    /\ caller[c].pc = "awaitJoin"
    /\ Settled(caller[c].att)
    /\ caller' = [caller EXCEPT ![c] = JoinerOutcome(caller[c].att)]
    /\ UNCHANGED <<connectedServers, connectedKeys, connectionPromises, attempts,
                   cleanupSt, config, clients, mgrVars, botVars>>

\* A connection is Ready when handshake and discovery succeeded on it, its
\* process is alive and nothing has closed it.
Ready(a) ==
    /\ a # None
    /\ attempts[a].st = "resolved"
    /\ attempts[a].proc = "alive"
    /\ ~attempts[a].clientClosed

\* LazyMCPManager.executeServerTool up to `await serverInfo.client.callTool`.
ExecSync(c, s) ==
    caller' = [caller EXCEPT ![c] =
            IF connectedServers[s] = None
            THEN [pc |-> "notConnected", att |-> None]
            ELSE [pc |-> "awaitCall", att |-> connectedServers[s]]]

lazyExecuteServerTool(c, s) ==
    /\ Free(c)
    /\ s \in config
    /\ ExecSync(c, s)
    /\ UNCHANGED <<connectedServers, connectedKeys, connectionPromises, attempts,
                   cleanupSt, config, clients, mgrVars, botVars>>

\* client.callTool settles: with a result only from a live, open connection;
\* with an error at any time (error response, closed client).
CallToolSettles(c, ok) ==
    /\ caller[c].pc = "awaitCall"
    /\ ok => Ready(caller[c].att)
    /\ caller' = [caller EXCEPT ![c].pc = IF ok THEN "callReturned" ELSE "callThrew"]
    /\ UNCHANGED <<connectedServers, connectedKeys, connectionPromises, attempts,
                   cleanupSt, config, clients, mgrVars, botVars>>

\* client.callTool rejects because the server did not answer within the
\* request bound of the client: the catch of executeServerTool logs and rethrows.
CallToolTimesOut(c) ==
    /\ caller[c].pc = "awaitCall"
    /\ caller' = [caller EXCEPT ![c].pc = "callTimedOut"]
    /\ UNCHANGED <<connectedServers, connectedKeys, connectionPromises, attempts,
                   cleanupSt, config, clients, mgrVars, botVars>>

\* ---- cleanup(): for (const [serverName, serverInfo] of this.connectedServers)
CleanupIdle == [pc |-> "idle", idx |-> 0, info |-> None]

CleanupStart ==
    /\ cleanupSt.pc = "idle"
    /\ cleanupSt' = [pc |-> "loop", idx |-> 0, info |-> None]
    /\ UNCHANGED <<connectedServers, connectedKeys, connectionPromises, attempts,
                   caller, config, clients, mgrVars, botVars>>

\* Next entry of the (live) Map iterator: await serverInfo.client.close()
CleanupVisit ==
    /\ cleanupSt.pc = "loop"
    /\ cleanupSt.idx < Len(connectedKeys)
    /\ cleanupSt' = [pc |-> "closingClient", idx |-> cleanupSt.idx + 1,
                     info |-> connectedServers[connectedKeys[cleanupSt.idx + 1]]]
    /\ attempts' = [attempts EXCEPT
                       ![connectedServers[connectedKeys[cleanupSt.idx + 1]]].closeCalled = TRUE]
    /\ UNCHANGED <<connectedServers, connectedKeys, connectionPromises,
                   caller, config, clients, mgrVars, botVars>>

\* client.close() resolves (the client closes its transport, which ends the
\* child process); cleanup goes on to await serverInfo.transport.close().
CleanupClientClosed ==
    /\ cleanupSt.pc = "closingClient"
    /\ attempts' = [attempts EXCEPT ![cleanupSt.info].clientClosed = TRUE,
                                    ![cleanupSt.info].proc =
                                        IF @ = "alive" THEN "dead" ELSE @]
    /\ cleanupSt' = [cleanupSt EXCEPT !.pc = "closingTransport"]
    /\ UNCHANGED <<connectedServers, connectedKeys, connectionPromises, caller,
                   config, clients, mgrVars, botVars>>

\* catch (error) { console.warn(...) }: the loop goes on with the next entry.
AfterCloseFailureAborts(st) == [pc |-> "idle", idx |-> 0, info |-> None]
AfterCloseFailure(st) == [st EXCEPT !.pc = "loop", !.info = None]

\* client.close() rejects: caught and logged; transport.close() is skipped.
CleanupClientCloseFails ==
    /\ cleanupSt.pc = "closingClient"
    /\ cleanupSt' = AfterCloseFailure(cleanupSt)
    /\ UNCHANGED <<connectedServers, connectedKeys, connectionPromises, attempts,
                   caller, config, clients, mgrVars, botVars>>

\* transport.close() resolves or rejects (caught); either way the loop goes on.
CleanupTransportClosed(ok) ==
    /\ cleanupSt.pc = "closingTransport"
    /\ attempts' = IF ok
                   THEN [attempts EXCEPT ![cleanupSt.info].transportClosed = TRUE,
                                         ![cleanupSt.info].proc =
                                             IF @ = "alive" THEN "dead" ELSE @]
                   ELSE attempts
    /\ cleanupSt' = IF ok THEN [cleanupSt EXCEPT !.pc = "loop", !.info = None]
                         ELSE AfterCloseFailure(cleanupSt)
    /\ UNCHANGED <<connectedServers, connectedKeys, connectionPromises, caller,
                   config, clients, mgrVars, botVars>>

\* this.connectedServers.clear(); this.connectionPromises.clear();
CleanupFinish ==
    /\ cleanupSt.pc = "loop"
    /\ cleanupSt.idx >= Len(connectedKeys)
    /\ connectedServers' = [s \in LazyNames |-> None]
    /\ connectedKeys' = << >>
    /\ connectionPromises' = [s \in LazyNames |-> None]
    /\ cleanupSt' = CleanupIdle
    /\ UNCHANGED <<attempts, caller, config, clients, mgrVars, botVars>>

\* ---- synchronous operations that only read
NoReturn == [op |-> "none", value |-> None]

\* Object.keys(config): the configured names in the order of the file.
ConfigKeys ==
    LET Keep(s) == s \in config
    IN SelectSeq(<<"weather", "employees-server">>, Keep)

\* getServerDescription(serverName): descriptions[serverName] || `${serverName} services`
getServerDescription(s) ==
    CASE s = "weather" -> "Weather services including forecasts, alerts, and conditions"
      [] s = "employees-server" -> "Employee management and staff information services"
      [] OTHER -> "services of the name"

\* getAvailableServers(): one { serverName, description } per configured name.
getAvailableServers ==
    [i \in 1..Len(ConfigKeys) |->
        [serverName |-> ConfigKeys[i], description |-> getServerDescription(ConfigKeys[i])]]

\* this.connectedServers.size
totalServersConfigured == Cardinality(config)
totalServers == Len(connectedKeys)

\* getServerSummary(): the size of connectedServers and one entry per
\* connection stored, in insertion order.
getServerSummary ==
    [totalServers |-> totalServers,
     servers |-> [i \in 1..Len(connectedKeys) |->
                    [name |-> connectedKeys[i], connected |-> TRUE,
                     toolCount |-> Len(attempts[connectedServers[connectedKeys[i]]].tools)]]]

\* A caller invokes one of the three operations; only what it gets back changes.
CallGetAvailableServers ==
    /\ lastReturn' = [op |-> "getAvailableServers", value |-> getAvailableServers]
    /\ UNCHANGED <<lazyVars, mgrVars, query>>

CallGetServerDescription(s) ==
    /\ lastReturn' = [op |-> "getServerDescription", value |-> getServerDescription(s)]
    /\ UNCHANGED <<lazyVars, mgrVars, query>>

CallGetServerSummary ==
    /\ lastReturn' = [op |-> "getServerSummary", value |-> getServerSummary]
    /\ UNCHANGED <<lazyVars, mgrVars, query>>

\* ---- processUserQuery(context, query)
\* await context.sendActivity(text): the reply is handed to the channel.
Send(q, text, pc) == [q EXCEPT !.replies = Append(@, text), !.pc = pc]

\* After the catch block: the code falls through to the direct LLM path,
\* const llmReply = await queryOllama(query).
AfterNoticeReturns(q) == [q EXCEPT !.pc = "done"]
AfterNotice(q) == [q EXCEPT !.pc = "askingLLM", !.llm = @ + 1]

\* catch (error): the notice names the server when toolSelectionResponse has a
\* serverName and error.message includes 'timeout' or 'connect'.
Catch(q, matches) ==
    Send(q, IF q.tsr # "-" /\ matches THEN "noticeUnavailable" ELSE "noticeFailed",
         "sendingNotice")

\* processUserQuery up to its first await.  getAvailableServers() throws when
\* the configuration cannot be read.
QueryStart(c, readable) ==
    /\ c \in clients
    /\ query[c].pc \in {"idle", "done"}
    /\ caller' = [caller EXCEPT ![c] =
          IF readable THEN IdleCaller ELSE [pc |-> "configError", att |-> None]]
    /\ query' = [query EXCEPT ![c] =
          IF ~readable THEN Catch(IdleQuery, FALSE)
          ELSE IF Len(getAvailableServers) > 0
               THEN [IdleQuery EXCEPT !.pc = "selectingServer"]
               ELSE AfterNotice(IdleQuery)]
    /\ UNCHANGED <<connectedServers, connectedKeys, connectionPromises, attempts,
                   cleanupSt, config, clients, mgrVars, lastReturn>>

\* queryOllamaForServerSelection returned (it catches its own errors and then
\* returns { useServer: false }); with a server selected,
\* mcpManager.getToolsFromServer(serverSelectionResponse.serverName) is called.
ServerSelected(c, useServer, s) ==
    /\ query[c].pc = "selectingServer"
    /\ IF useServer
       THEN /\ GetToolsSync(c, s)
            /\ query' = [query EXCEPT ![c].pc = "awaitTools"]
       ELSE /\ query' = [query EXCEPT ![c] = AfterNotice(@)]
            /\ UNCHANGED <<caller, connectionPromises, attempts>>
    /\ UNCHANGED <<connectedServers, connectedKeys, cleanupSt, config, clients,
                   mgrVars, lastReturn>>

\* await mcpManager.getToolsFromServer(...) is over: with the descriptors,
\* queryOllamaForToolSelection is called; with an error, the catch block runs.
ToolsSettled(c) ==
    /\ query[c].pc = "awaitTools"
    /\ caller[c].pc \in {"reused", "returned", "threw", "notFound"}
    /\ query' = [query EXCEPT ![c] =
          IF caller[c].pc \in {"reused", "returned"}
          THEN [@ EXCEPT !.pc = "selectingTool"]
          ELSE Catch(@, TRUE)]
    /\ UNCHANGED <<lazyVars, mgrVars, lastReturn>>

\* queryOllamaForToolSelection returned (it catches its own errors and then
\* returns { usesTool: false }); with a tool selected the use is announced.
ToolSelected(c, usesTool, s) ==
    /\ query[c].pc = "selectingTool"
    /\ query' = [query EXCEPT ![c] =
          IF usesTool
          THEN Send([@ EXCEPT !.tsr = s], "using", "announcing")
          ELSE AfterNotice(@)]
    /\ UNCHANGED <<lazyVars, mgrVars, lastReturn>>

\* The announcement is sent: mcpManager.executeServerTool(
\* toolSelectionResponse.serverName, ...) is called.
Announced(c) ==
    /\ query[c].pc = "announcing"
    /\ ExecSync(c, query[c].tsr)
    /\ query' = [query EXCEPT ![c].pc = "awaitExec"]
    /\ UNCHANGED <<connectedServers, connectedKeys, connectionPromises, attempts,
                   cleanupSt, config, clients, mgrVars, lastReturn>>

\* await mcpManager.executeServerTool(...) is over: the result is formatted
\* (formatMCPResultWithLLM catches its own errors), or the catch block runs;
\* 'Server ... not connected' includes 'connect', the message of a failed
\* callTool may or may not match.
ExecSettled(c, matches) ==
    /\ query[c].pc = "awaitExec"
    /\ caller[c].pc \in {"callReturned", "callThrew", "callTimedOut", "notConnected"}
    /\ caller[c].pc = "notConnected" => matches
    /\ query' = [query EXCEPT ![c] =
          IF caller[c].pc = "callReturned"
          THEN [@ EXCEPT !.pc = "formatting"]
          ELSE Catch(@, matches)]
    /\ UNCHANGED <<lazyVars, mgrVars, lastReturn>>

\* The formatted result is sent, and then processUserQuery returns.
Formatted(c) ==
    /\ query[c].pc = "formatting"
    /\ query' = [query EXCEPT ![c] = Send(@, "result", "sendingResult")]
    /\ UNCHANGED <<lazyVars, mgrVars, lastReturn>>

\* A send is over: after the result the function returns, after the notice
\* the direct LLM path is taken, after the direct reply the function ends.
SendCompleted(c) ==
    /\ query[c].pc \in {"sendingResult", "sendingNotice", "sendingReply"}
    /\ query' = [query EXCEPT ![c] =
          IF @.pc = "sendingNotice" THEN AfterNotice(@) ELSE [@ EXCEPT !.pc = "done"]]
    /\ UNCHANGED <<lazyVars, mgrVars, lastReturn>>

\* await queryOllama(query) is over: the reply of the model is sent, or the
\* apology when the model could not be reached.
LLMSettled(c, ok) ==
    /\ query[c].pc = "askingLLM"
    /\ query' = [query EXCEPT ![c] =
          Send(@, IF ok THEN "llmReply" ELSE "sorry", "sendingReply")]
    /\ UNCHANGED <<lazyVars, mgrVars, lastReturn>>

\* ------------------------------------------------------------ MCPManager
\* Order of the entries of config.mcpServers (Object.entries order).
ConfigOrder == <<"weather", "employees-server">>

Absent == [present |-> FALSE, connected |-> FALSE, tools |-> NoTools]

\* Delays and bounds of discoverServerTools (milliseconds).
DiscoveryTimeout == 12000
DiscoverInitDelay == 1000
DiscoverInitializedDelay == 1500
DiscoverToolsListDelay == 1000
\* Delays and bounds of executeServerTool (milliseconds).
ExecTimeoutRemote == 25000
ExecTimeoutLocal == 15000
ExecInitDelay == 500
ExecInitializedDelay == 1500
ExecCallDelayShort == ExecInitializedDelay - 500
ExecCallDelay == 2500

\* ---- the args of a configuration entry: strings, as sequences of characters
Http == <<"h", "t", "t", "p">>
ArgScript == <<"s", "r", "v", ".", "p", "y">>
ArgUrl == <<"h", "t", "t", "p", "s", ":", "/", "/", "x">>
ArgFlagUrl == <<"-", "-", "u", "=", "h", "t", "t", "p", ":", "/", "/", "x">>
ArgShort == <<"h", "t", "t">>
ArgSplit == <<"h", "t", "-", "t", "p">>
ArgUpper == <<"H", "T", "T", "P">>
ArgStrings == {<< >>, Http, ArgScript, ArgUrl, ArgFlagUrl, ArgShort, ArgSplit, ArgUpper}
\* Argument lists of at most MaxArgs entries.
ArgLists == UNION {[1..n -> ArgStrings] : n \in 0..MaxArgs}

\* Every server is a local script / the second server is reached through a proxy.
LocalArgs == [s \in Servers |-> <<ArgScript>>]
ProxiedArgs == [s \in Servers |-> IF s = "employees-server" THEN <<ArgScript, ArgUrl>>
                                  ELSE <<ArgScript>>]

\* str.includes(pat), for a pattern that is not empty
startsWith(str, pat) == Len(pat) <= Len(str) /\ SubSeq(str, 1, Len(pat)) = pat
includes(str, pat) ==
    \E i \in 1..Len(str) :
        i + Len(pat) <= Len(str) + 1 /\ SubSeq(str, i, i + Len(pat) - 1) = pat

\* const timeoutDuration = server.args.some(arg => arg.includes('http')) ? 25000 : 15000
timeoutDuration(s) ==
    IF \E i \in 1..Len(serverArgs[s]) : includes(serverArgs[s][i], Http)
    THEN ExecTimeoutRemote ELSE ExecTimeoutLocal

\* ---- lines the child process writes to stdout
\* k: "initResult"       response to initialize (id 1), result.capabilities.tools present
\*    "initResultPlain"  response to initialize (id 1) of a server that declares no
\*                       tools capability: the text has no "tools" in it
\*    "toolsResult"      response to tools/list (id 2), result.tools = tools
\*    "callResult"       response to tools/call (id 3), result = {content: [...]}
\*    "callError"        response to tools/call (id 3) with an error member
\*    "contentOnly"      answer to tools/call with a top-level content and no result
\*    "resultAndContent" response to tools/call (id 3) with result and top-level content
\*    "callResultTools"  response to tools/call (id 3) whose result mentions tools:
\*                       result = {content: [{type: "text", text: "tools"}]}
\*    "noise"            a log line that is not JSON
\*    "garbledTools"     text that is not JSON and contains "result" and "tools"
\*    "garbledResult"    text that is not JSON and contains "result", without "tools"
\* part: how the line arrived: "whole" in one chunk, "head" when only its
\* beginning has arrived so far (the chunk ended inside it), "joined" once the
\* rest has arrived in a later chunk.
Line(k, tools) == [k |-> k, tools |-> tools, part |-> "whole"]
ServerLines == {Line(k, NoTools) : k \in {"initResult", "initResultPlain", "callResult", "callError",
                                          "contentOnly", "resultAndContent", "noise"}}
                  \cup {Line("toolsResult", T) : T \in ToolLists}

\* Output that looks like a response without being one.
GarbledLines == {Line("garbledTools", NoTools), Line("garbledResult", NoTools)}
\* Responses to tools/call whose payload mentions tools.
PayloadLines == {Line("callResultTools", NoTools)}
\* A response to tools/list whose list has a null entry.
BrokenLines == {Line("toolsResult", BrokenTools)}
AllLines == ServerLines \cup GarbledLines \cup PayloadLines \cup BrokenLines

\* The id member of the message, 0 when it has none.
LineId(l) == CASE l.k \in {"initResult", "initResultPlain"} -> 1
               [] l.k = "toolsResult" -> 2
               [] l.k \in {"callResult", "callError", "resultAndContent", "callResultTools"} -> 3
               [] OTHER -> 0

\* JSON.parse(line.trim()) succeeds: the beginning of a JSON text is not a JSON text.
ParsesAsJson(l) == l.k \notin {"noise", "garbledTools", "garbledResult"} /\ l.part # "head"
\* line.includes('"result"')
IncludesResultKey(l) ==
    l.k \in {"initResult", "initResultPlain", "toolsResult", "callResult", "resultAndContent",
             "callResultTools", "garbledTools", "garbledResult"}
\* line.includes('tools') and line.includes('"tools"')
IncludesToolsWord(l) == l.k \in {"initResult", "toolsResult", "callResultTools", "garbledTools"}
IncludesToolsKey(l) == l.k \in {"initResult", "toolsResult", "callResultTools", "garbledTools"}
\* line.includes('"content"')
IncludesContentKey(l) == l.k \in {"callResult", "contentOnly", "resultAndContent", "callResultTools"}
\* parsed.result: the payload, "none" when absent
ParsedResult(l) == CASE l.k \in {"initResult", "initResultPlain"} -> "initPayload"
                     [] l.k = "toolsResult" -> "toolsPayload"
                     [] l.k \in {"callResult", "resultAndContent"} -> "callPayload"
                     [] l.k = "callResultTools" -> "callPayloadTools"
                     [] OTHER -> "none"
\* parsed.result && parsed.result.tools
HasResultTools(l) == l.k = "toolsResult"
\* parsed.content (top level)
ParsedContent(l) == IF l.k \in {"contentOnly", "resultAndContent"} THEN "topContent" ELSE "none"
\* parsed.error
ParsedError(l) == IF l.k = "callError" THEN "toolError" ELSE "none"

\* The request a response line answers; the server answers only requests it received.
AnswersRequest(l) == CASE l.k \in {"initResult", "initResultPlain"} -> "initialize"
                       [] l.k = "toolsResult" -> "tools/list"
                       [] l.k \in {"callResult", "callError", "contentOnly", "resultAndContent",
                                    "callResultTools"} -> "tools/call"
                       [] OTHER -> "none"

InSeq(x, q) == \E i \in 1..Len(q) : q[i] = x

\* ---- one call: the closure variables of the promise executor
\* kind: none | discover | execute;  proc: none | alive | exited | closed | failed
\* flag: toolsDiscovered / toolResultReceived;  timers: pending setTimeout callbacks
\* outcome: pending | resolved | rejected, with the value the promise settled with
\* (tools for a discovery, value for an invocation or an error) and its cause.
NoCall == [kind |-> "none", server |-> "-", proc |-> "none", killed |-> FALSE,
           errPending |-> FALSE, stdinThrows |-> FALSE, paramsOk |-> TRUE,
           stdout |-> << >>, flag |-> FALSE, timers |-> {}, written |-> << >>,
           outcome |-> "pending", value |-> "-", tools |-> NoTools, cause |-> "-",
           awaited |-> FALSE]

Timer(name, at) == [name |-> name, at |-> at]

\* A pending timer fires when no other pending timer of the call is due earlier.
Due(r, t) == t \in r.timers /\ \A u \in r.timers : t.at <= u.at

\* resolve(...) / reject(...): a promise settles once; later calls are no-ops.
SettleAgain(r, outcome, value, tools, cause) ==
    [r EXCEPT !.outcome = outcome, !.value = value, !.tools = tools, !.cause = cause]
Settle(r, outcome, value, tools, cause) ==
    IF r.outcome = "pending"
    THEN [r EXCEPT !.outcome = outcome, !.value = value, !.tools = tools, !.cause = cause]
    ELSE r

\* const cleanup = () => { if (!process.killed) process.kill(); }
cleanup(r) == IF ~r.killed /\ r.proc = "alive"
              THEN [r EXCEPT !.killed = TRUE, !.proc = "exited"]
              ELSE r

\* clearTimeout(timeout)
clearTimeout(r) == [r EXCEPT !.timers = {t \in @ : t.name # "timeout"}]

\* spawn(server.command, server.args, ...): the process starts, or does not
\* (an 'error' event follows; stdin may then be unusable so that writes throw).
Spawned(kind, s, started, throws, paramsOk, timers) ==
    [NoCall EXCEPT !.kind = kind, !.server = s,
                   !.proc = IF started THEN "alive" ELSE "failed",
                   !.errPending = ~started,
                   !.stdinThrows = (~started /\ throws),
                   !.paramsOk = paramsOk,
                   !.timers = timers]

FreeSlot(c) == c \in slots /\ calls[c].kind = "none"

\* discoverServerTools(server), the promise executor: spawn, the discovery
\* timeout, the handlers, and the timer that sends initialize.
discoverServerTools(c, s, started, throws) ==
    Spawned("discover", s, started, throws, TRUE,
            {Timer("timeout", DiscoveryTimeout), Timer("sendInit", DiscoverInitDelay)})

\* executeServerTool(serverName, toolName, parameters), the promise executor:
\* spawn, the invocation timeout, the handlers and the three send timers.
ExecSendTimers ==
    {Timer("sendInit", ExecInitDelay), Timer("sendInitialized", ExecInitializedDelay),
     Timer("sendRequest", ExecCallDelay)}

executeServerTool(c, s, started, throws, paramsOk) ==
    /\ FreeSlot(c)
    /\ IF ~servers[s].present
       THEN \* throw new Error(`Server ${serverName} not found`)
            calls' = [calls EXCEPT ![c] =
                         [NoCall EXCEPT !.kind = "execute", !.server = s,
                                        !.outcome = "rejected", !.value = "notFound",
                                        !.cause = "notFound"]]
       ELSE calls' = [calls EXCEPT ![c] =
                         Spawned("execute", s, started, throws, paramsOk,
                                 {Timer("timeout", timeoutDuration(s))} \cup ExecSendTimers)]
    /\ UNCHANGED <<servers, serverKeys, serverTools, initSt, slots, serverArgs, emits, lazyVars, botVars>>

\* ---- timers
\* discoverServerTools, timeout callback: cleanup(); resolve([]).
onDiscoveryTimeoutRejects(k) == Settle(k, "rejected", "timeout", NoTools, "timeout")
onDiscoveryTimeout(k) == Settle(k, "resolved", "tools", NoTools, "timeout")

\* executeServerTool, timeout callback (after cleanup()):
\* if (!toolResultReceived) reject(new Error('Tool execution timeout')).
onInvocationTimeoutPlaceholder(k) ==
    IF ~k.flag THEN Settle(k, "resolved", "noResultPlaceholder", NoTools, "timeout") ELSE k
onInvocationTimeout(k) ==
    IF ~k.flag THEN Settle(k, "rejected", "timeout", NoTools, "timeout") ELSE k

\* The discovery / invocation timeout fires.
TimeoutFires(c) ==
    LET r == calls[c]
        t == CHOOSE t \in r.timers : t.name = "timeout"
        k == cleanup([r EXCEPT !.timers = @ \ {t}])
    IN /\ \E u \in r.timers : u.name = "timeout"
       /\ Due(r, t)
       /\ calls' = [calls EXCEPT ![c] =
             IF r.kind = "discover"
             THEN onDiscoveryTimeout(k)
             ELSE onInvocationTimeout(k)]
       /\ UNCHANGED <<servers, serverKeys, serverTools, initSt, slots, serverArgs, emits, lazyVars, botVars>>

\* process.stdin.write(message): appends to what was written, unless it throws.
Write(r, msg) == [r EXCEPT !.written = Append(@, msg)]

\* The message a send timer writes.
MessageOf(r, name) ==
    CASE name = "sendInit" -> "initialize"
      [] name = "sendInitialized" -> "notifications/initialized"
      [] name = "sendRequest" -> IF r.kind = "discover" THEN "tools/list" ELSE "tools/call"

\* Whether the write of a send timer throws (stdin unusable, or
\* JSON.stringify of the tool parameters fails).
WriteThrows(r, name) ==
    r.stdinThrows \/ (r.kind = "execute" /\ name = "sendRequest" /\ ~r.paramsOk)

\* The timer a send timer of discoverServerTools sets after its write (the
\* setTimeout calls are nested); executeServerTool sets all three at the start.
NestedTimer(r, t) ==
    IF r.kind = "discover"
    THEN CASE t.name = "sendInit" ->
                 {Timer("sendInitialized", t.at + DiscoverInitializedDelay)}
           [] t.name = "sendInitialized" ->
                 {Timer("sendRequest", t.at + DiscoverToolsListDelay)}
           [] OTHER -> {}
    ELSE {}

\* A send timer fires: try { process.stdin.write(...) } catch (error) { ... }
SendTimerFires(c, name) ==
    LET r == calls[c]
        t == CHOOSE t \in r.timers : t.name = name
        q == [r EXCEPT !.timers = @ \ {t}]
    IN /\ \E u \in r.timers : u.name = name
       /\ Due(r, t)
       /\ calls' = [calls EXCEPT ![c] =
             IF WriteThrows(r, name)
             THEN IF r.kind = "discover"
                  THEN q                                       \* console.warn
                  ELSE Settle(q, "rejected", "writeError", NoTools, "write")  \* reject(error)
             ELSE [Write(q, MessageOf(r, name)) EXCEPT !.timers = @ \cup NestedTimer(r, t)]]
       /\ UNCHANGED <<servers, serverKeys, serverTools, initSt, slots, serverArgs, emits, lazyVars, botVars>>

\* ---- stdout
\* The first of the positions idx (0 when there is none): the handlers examine
\* the lines of the accumulated output in order.
First(idx) == IF idx = {} THEN 0 ELSE CHOOSE i \in idx : \A j \in idx : i <= j

\* discoverServerTools: line.trim() && line.includes('"result"') &&
\* line.includes('tools'), then JSON.parse and parsed.result && parsed.result.tools
DiscoverAccepts(l) ==
    /\ IncludesResultKey(l) /\ IncludesToolsWord(l)
    /\ ParsesAsJson(l)
    /\ HasResultTools(l)

\* executeServerTool: line.trim() && (line.includes('"result"') ||
\* line.includes('"content"')) && !line.includes('"tools"'), then JSON.parse and
\* parsed.result or parsed.content
ExecAccepts(l) ==
    /\ (IncludesResultKey(l) \/ IncludesContentKey(l)) /\ ~IncludesToolsKey(l)
    /\ ParsesAsJson(l)
    /\ (ParsedResult(l) # "none" \/ ParsedContent(l) # "none")

\* The value executeServerTool resolves with for an accepted line:
\* parsed.result, or { content: parsed.content }.
ExecValueContentFirst(l) ==
    IF ParsedContent(l) # "none" THEN "contentWrapped" ELSE ParsedResult(l)
ExecValue(l) == IF ParsedResult(l) # "none" THEN ParsedResult(l) ELSE "contentWrapped"

\* The test that precedes JSON.parse in the loop of the 'data' handler.
PassesFilter(kind, l) ==
    IF kind = "discover"
    THEN IncludesResultKey(l) /\ IncludesToolsWord(l)
    ELSE (IncludesResultKey(l) \/ IncludesContentKey(l)) /\ ~IncludesToolsKey(l)

\* The lines the loop examines: try { JSON.parse(...) } catch (e) { } is inside
\* the loop body, so a line that does not parse does not end the loop.
ExaminedUntilThrow(kind, lines) ==
    {n \in 1..Len(lines) :
        \A m \in 1..(n - 1) : ~(PassesFilter(kind, lines[m]) /\ ~ParsesAsJson(lines[m]))}
Examined(kind, lines) == 1..Len(lines)

\* const lines = stdout.split('\n'): the lines of everything received so far,
\* not of the last chunk alone (the rest of a line is not a JSON text by itself).
ScannedLastChunk(q) ==
    LET last == q.stdout[Len(q.stdout)]
    IN IF q.stdout = << >> THEN << >>
       ELSE << IF last.part = "joined" THEN [last EXCEPT !.part = "head"] ELSE last >>
Scanned(q) == q.stdout

\* The body of the stdout 'data' handler after stdout += data: every line of
\* the accumulated output is examined, in order.
Scan(q) ==
    LET lines == Scanned(q)
        i == First({n \in Examined(q.kind, lines) : DiscoverAccepts(lines[n])})
        j == First({n \in Examined(q.kind, lines) : ExecAccepts(lines[n])})
    IN IF q.kind = "discover"
       THEN IF i # 0
            THEN Settle([cleanup(clearTimeout(q)) EXCEPT !.flag = TRUE],
                        "resolved", "tools", lines[i].tools, "data")
            ELSE q
       ELSE IF j # 0 /\ ~q.flag
            THEN Settle([cleanup(clearTimeout(q)) EXCEPT !.flag = TRUE],
                        "resolved", ExecValue(lines[j]), NoTools, "data")
            ELSE q

\* process.stdout.on('data') for a chunk that holds the line l: `stdout` and
\* the flag are variables of the promise executor of this call (let stdout = '',
\* let toolResultReceived = false), not fields of the manager.
onStdoutDataShared(r, l) ==
    LET others == {d \in CallIds : calls[d] # r /\ calls[d].stdout # << >>}
    IN Scan([r EXCEPT !.stdout =
                Append(IF others = {} THEN @ ELSE calls[CHOOSE d \in others : TRUE].stdout, l)])
onStdoutData(r, l) == Scan([r EXCEPT !.stdout = Append(@, l)])

\* The last line of the accumulated output is incomplete.
LineOpen(r) == r.stdout # << >> /\ r.stdout[Len(r.stdout)].part = "head"

\* The child process writes a line; it answers only requests it has received.
StdoutData(c, l) ==
    /\ calls[c].proc \in {"alive", "exited"}
    /\ Len(calls[c].stdout) < MaxLines
    /\ ~LineOpen(calls[c])
    /\ l \in emits
    /\ AnswersRequest(l) # "none" => InSeq(AnswersRequest(l), calls[c].written)
    /\ calls' = [calls EXCEPT ![c] = onStdoutData(calls[c], l)]
    /\ UNCHANGED <<servers, serverKeys, serverTools, initSt, slots, serverArgs, emits, lazyVars, botVars>>

\* A chunk ends inside the line l: 'data' delivers the beginning of the line.
StdoutPartial(c, l) ==
    /\ calls[c].proc \in {"alive", "exited"}
    /\ Len(calls[c].stdout) < MaxLines
    /\ ~LineOpen(calls[c])
    /\ l \in emits
    /\ AnswersRequest(l) # "none" => InSeq(AnswersRequest(l), calls[c].written)
    /\ calls' = [calls EXCEPT ![c] = onStdoutData(calls[c], [l EXCEPT !.part = "head"])]
    /\ UNCHANGED <<servers, serverKeys, serverTools, initSt, slots, serverArgs, emits, lazyVars, botVars>>

\* stdout += data.toString(): the rest of the line is appended to its beginning.
Joined(r) == [r EXCEPT !.stdout[Len(r.stdout)].part = "joined"]

\* The next chunk brings the rest of the incomplete line.
StdoutRest(c) ==
    LET r == calls[c]
        n == Len(r.stdout)
    IN /\ r.proc \in {"alive", "exited"}
       /\ LineOpen(r)
       /\ calls' = [calls EXCEPT ![c] = Scan(Joined(r))]
       /\ UNCHANGED <<servers, serverKeys, serverTools, initSt, slots, serverArgs, emits, lazyVars, botVars>>

\* ---- process events
\* The child process exits by itself.
ProcExit(c) ==
    /\ calls[c].proc = "alive"
    /\ calls' = [calls EXCEPT ![c].proc = "exited"]
    /\ UNCHANGED <<servers, serverKeys, serverTools, initSt, slots, serverArgs, emits, lazyVars, botVars>>

\* parseToolResult(stdout): the first line that parses and has a result,
\* otherwise { content: output || 'No result from MCP server' }; it never throws.
ParseAccepts(l) == ParsesAsJson(l) /\ ParsedResult(l) # "none"
parseToolResult(out) ==
    LET i == First({n \in 1..Len(out) : ParseAccepts(out[n])})
    IN IF i # 0 THEN ParsedResult(out[i])
       ELSE IF out # << >> THEN "rawOutput" ELSE "noResultPlaceholder"

\* discoverServerTools, 'close' handler when no tools were discovered:
\* clearTimeout(timeout); resolve([]).
onDiscoveryCloseSilent(q) == clearTimeout(q)
onDiscoveryClose(q) == Settle(clearTimeout(q), "resolved", "tools", NoTools, "close")

\* process.on('close')
ProcClose(c) ==
    LET r == calls[c]
        q == [r EXCEPT !.proc = "closed"]
    IN /\ r.proc = "exited" \/ (r.proc = "failed" /\ ~r.errPending)
       /\ calls' = [calls EXCEPT ![c] =
             IF r.flag THEN q
             ELSE IF r.kind = "discover"
                  THEN onDiscoveryClose(q)
                  ELSE Settle(clearTimeout(q), "resolved", parseToolResult(r.stdout),
                              NoTools, "close")]
       /\ UNCHANGED <<servers, serverKeys, serverTools, initSt, slots, serverArgs, emits, lazyVars, botVars>>

\* process.on('error'): the process could not be started.
ProcError(c) ==
    LET r == calls[c]
        q == clearTimeout([r EXCEPT !.errPending = FALSE])
    IN /\ r.errPending
       /\ calls' = [calls EXCEPT ![c] =
             IF r.kind = "discover"
             THEN Settle(q, "resolved", "tools", NoTools, "error")
             ELSE IF ~r.flag THEN Settle(q, "rejected", "spawnError", NoTools, "error")
                  ELSE q]
       /\ UNCHANGED <<servers, serverKeys, serverTools, initSt, slots, serverArgs, emits, lazyVars, botVars>>

\* ---- initialize() / loadServer()
\* initSt.next: index in ConfigOrder of the server being loaded (0 before
\* initialize is called, Len + 1 once it has returned); initSt.slot: the call
\* whose promise loadServer awaits.
InitIdle == [next |-> 0, slot |-> None]

\* await this.loadServer(serverName, serverConfig): the loop of initialize()
\* is suspended while a loadServer call has not returned.
LoadPendingNever == FALSE
LoadPending == initSt.slot # None

\* loadServer(serverName, serverConfig) up to `await this.discoverServerTools(server)`.
loadServer(c, started, throws) ==
    /\ ~LoadPending
    /\ initSt.next < Len(ConfigOrder)
    /\ FreeSlot(c)
    /\ calls' = [calls EXCEPT ![c] =
          [discoverServerTools(c, ConfigOrder[initSt.next + 1], started, throws)
              EXCEPT !.awaited = TRUE]]
    /\ initSt' = [next |-> initSt.next + 1, slot |-> c]
    /\ UNCHANGED <<servers, serverKeys, serverTools, slots, serverArgs, emits, lazyVars, botVars>>

\* server.connected = tools.length > 0
connectedAlways(tools) == TRUE
connectedIf(tools) == tools # NoTools

\* tools.map(tool => tool.name) does not throw.
NamesReadable(tools) == \A i \in 1..Len(tools) : tools[i] # NullEntry

\* this.serverTools.set(serverName, tools)
serverToolsSetIfFound(m, s, tools) ==
    IF tools = NoTools THEN m
    ELSE [m EXCEPT ![s] = [present |-> TRUE, connected |-> FALSE, tools |-> tools]]
serverToolsSet(m, s, tools) ==
    [m EXCEPT ![s] = [present |-> TRUE, connected |-> FALSE, tools |-> tools]]

\* loadServer resumes when the discovery promise has settled: the server is
\* registered with the tools found.  When the promise rejected, or logging the
\* tool names throws after the server was registered, the catch block
\* registers the server again, as failed.
loadServerResumes ==
    LET c == initSt.slot
        r == calls[c]
        tools == IF r.outcome = "resolved" /\ NamesReadable(r.tools) THEN r.tools ELSE NoTools
    IN /\ c # None
       /\ r.outcome # "pending"
       /\ servers' = [servers EXCEPT ![r.server] =
             [present |-> TRUE, connected |-> connectedIf(tools), tools |-> tools]]
       /\ serverKeys' = IF servers[r.server].present THEN serverKeys
                        ELSE Append(serverKeys, r.server)
       /\ serverTools' = serverToolsSet(serverTools, r.server, tools)
       /\ calls' = [calls EXCEPT ![c].awaited = FALSE]
       /\ initSt' = [initSt EXCEPT !.slot = None,
                       !.next = IF @ = Len(ConfigOrder) THEN @ + 1 ELSE @]
       /\ UNCHANGED <<slots, serverArgs, emits, lazyVars, botVars>>

\* A call whose promise has been consumed, whose process is gone and whose
\* timers have all fired holds nothing any more: its closure is collected.
CallCollected(c) ==
    /\ calls[c].kind # "none"
    /\ calls[c].outcome # "pending"
    /\ ~calls[c].awaited
    /\ calls[c].timers = {}
    /\ calls[c].proc \in {"none", "closed"} \/ (calls[c].proc = "failed" /\ ~calls[c].errPending)
    /\ calls' = [calls EXCEPT ![c] = NoCall]
    /\ UNCHANGED <<servers, serverKeys, serverTools, initSt, slots, serverArgs, emits, lazyVars, botVars>>

\* ---- the flattened tool catalog
\* The records pushed for one entry [serverName, serverTools] of this.serverTools.
ToolRecordsLastFirst(s) ==
    LET T == serverTools[s].tools
    IN [i \in 1..Len(T) |-> [serverName |-> s, toolName |-> T[Len(T) + 1 - i]]]
ToolRecords(s) ==
    LET T == serverTools[s].tools
    IN [i \in 1..Len(T) |-> [serverName |-> s, toolName |-> T[i]]]

\* for (const [serverName, serverTools] of this.serverTools): the entries in
\* insertion order (servers.set and serverTools.set are always called together).
RECURSIVE FlattenTools(_)
FlattenTools(keys) ==
    IF keys = << >> THEN << >>
    ELSE ToolRecords(Head(keys)) \o FlattenTools(Tail(keys))

\* getAvailableToolsForLLM() and getAllTools() push one record per tool.
getAvailableToolsForLLM == FlattenTools(serverKeys)
getAllTools == FlattenTools(serverKeys)

CallGetAvailableToolsForLLM ==
    /\ lastReturn' = [op |-> "getAvailableToolsForLLM", value |-> getAvailableToolsForLLM]
    /\ UNCHANGED <<lazyVars, mgrVars, query>>

CallGetAllTools ==
    /\ lastReturn' = [op |-> "getAllTools", value |-> getAllTools]
    /\ UNCHANGED <<lazyVars, mgrVars, query>>

\* ------------------------------------------------------------ specifications
\* new LazyMCPManager(): both maps empty, nothing started.
LazyInit ==
    /\ connectedServers = [s \in LazyNames |-> None]
    /\ connectedKeys = << >>
    /\ connectionPromises = [s \in LazyNames |-> None]
    /\ attempts = [a \in AttemptIds |-> UnusedAttempt]
    /\ caller = [c \in Callers |-> IdleCaller]
    /\ cleanupSt = CleanupIdle

\* The connect path of LazyMCPManager: callers of connectToServer,
\* getToolsFromServer and executeServerTool, and the progress of the attempts.
NextConnect ==
    \/ \E c \in Callers, s \in Servers : connectToServer(c, s)
    \/ \E c \in Callers, s \in Servers \cup {UnknownServer} : getToolsFromServer(c, s)
    \/ \E a \in AttemptIds : ConnectResolves(a)
    \/ \E a \in AttemptIds : ConnectRejects(a)
    \/ \E a \in AttemptIds, tools \in ToolLists : ListToolsResolves(a, tools)
    \/ \E a \in AttemptIds : ListToolsRejects(a)
    \/ \E a \in AttemptIds : ProcessExits(a)
    \/ \E c \in Callers : StarterResumes(c)
    \/ \E c \in Callers : JoinerResumes(c)
    \/ \E c \in Callers, s \in Servers : lazyExecuteServerTool(c, s)
    \/ \E c \in Callers, ok \in BOOLEAN : CallToolSettles(c, ok)

NextCleanup ==
    \/ CleanupStart
    \/ CleanupVisit
    \/ CleanupClientClosed
    \/ CleanupClientCloseFails
    \/ \E ok \in BOOLEAN : CleanupTransportClosed(ok)
    \/ CleanupFinish

NextLazy == NextConnect \/ NextCleanup

\* Callers that use the manager through processUserQuery only.
NextQuery ==
    \/ \E c \in Callers, readable \in BOOLEAN : QueryStart(c, readable)
    \/ \E c \in Callers, useServer \in BOOLEAN, s \in Servers \cup {UnknownServer} :
          ServerSelected(c, useServer, s)
    \/ \E c \in Callers : ToolsSettled(c)
    \/ \E c \in Callers, usesTool \in BOOLEAN, s \in Servers : ToolSelected(c, usesTool, s)
    \/ \E c \in Callers : Announced(c)
    \/ \E c \in Callers, matches \in BOOLEAN : ExecSettled(c, matches)
    \/ \E c \in Callers : Formatted(c)
    \/ \E c \in Callers : SendCompleted(c)
    \/ \E c \in Callers, ok \in BOOLEAN : LLMSettled(c, ok)
    \/ \E a \in AttemptIds : ConnectResolves(a)
    \/ \E a \in AttemptIds : ConnectRejects(a)
    \/ \E a \in AttemptIds, tools \in ToolLists : ListToolsResolves(a, tools)
    \/ \E a \in AttemptIds : ListToolsRejects(a)
    \/ \E a \in AttemptIds : ProcessExits(a)
    \/ \E c \in Callers : StarterResumes(c)
    \/ \E c \in Callers : JoinerResumes(c)
    \/ \E c \in Callers, ok \in BOOLEAN : CallToolSettles(c, ok)

\* The connect path with tool calls that may time out.
NextShared ==
    \/ NextConnect
    \/ \E c \in Callers : CallToolTimesOut(c)

\* The connect path together with the operations that only read.
NextView ==
    \/ NextConnect
    \/ CallGetAvailableServers
    \/ \E s \in Servers \cup {UnknownServer} : CallGetServerDescription(s)
    \/ CallGetServerSummary

\* new MCPManager(): both maps empty.
\* No query is being processed and nothing has been returned yet.
BotInit ==
    /\ query = [c \in Callers |-> IdleQuery]
    /\ lastReturn = NoReturn

MgrInit ==
    /\ servers = [s \in Servers \cup {UnknownServer} |-> Absent]
    /\ serverKeys = << >>
    /\ serverTools = [s \in Servers \cup {UnknownServer} |-> Absent]
    /\ initSt = InitIdle
    /\ calls = [c \in CallIds |-> NoCall]

NextMgr ==
    \/ \E c \in CallIds, started \in BOOLEAN, throws \in BOOLEAN : loadServer(c, started, throws)
    \/ loadServerResumes
    \/ \E c \in CallIds, s \in Servers \cup {UnknownServer},
          started \in BOOLEAN, throws \in BOOLEAN, paramsOk \in BOOLEAN :
             executeServerTool(c, s, started, throws, paramsOk)
    \/ \E c \in CallIds : TimeoutFires(c)
    \/ \E c \in CallIds, name \in {"sendInit", "sendInitialized", "sendRequest"} :
          SendTimerFires(c, name)
    \/ \E c \in CallIds, l \in AllLines : StdoutData(c, l)
    \/ \E c \in CallIds, l \in AllLines : StdoutPartial(c, l)
    \/ \E c \in CallIds : StdoutRest(c)
    \/ \E c \in CallIds : ProcExit(c)
    \/ \E c \in CallIds : ProcClose(c)
    \/ \E c \in CallIds : ProcError(c)
    \/ \E c \in CallIds : CallCollected(c)

\* MCPManager with callers that read the tool catalog.
NextCatalog ==
    \/ NextMgr
    \/ CallGetAvailableToolsForLLM
    \/ CallGetAllTools

\* Tool invocations only, on servers that start and take the parameters.
NextPair ==
    \/ \E c \in CallIds, s \in Servers : executeServerTool(c, s, TRUE, FALSE, TRUE)
    \/ \E c \in CallIds : TimeoutFires(c)
    \/ \E c \in CallIds, name \in {"sendInit", "sendInitialized", "sendRequest"} :
          SendTimerFires(c, name)
    \/ \E c \in CallIds, l \in AllLines : StdoutData(c, l)
    \/ \E c \in CallIds : ProcExit(c)
    \/ \E c \in CallIds : ProcClose(c)
    \/ \E c \in CallIds : CallCollected(c)

\* Startup and invocations against servers that start and print nothing.
NextPolicy ==
    \/ \E c \in CallIds : loadServer(c, TRUE, FALSE)
    \/ loadServerResumes
    \/ \E c \in CallIds, s \in Servers : executeServerTool(c, s, TRUE, FALSE, TRUE)
    \/ \E c \in CallIds : TimeoutFires(c)
    \/ \E c \in CallIds, name \in {"sendInit", "sendInitialized", "sendRequest"} :
          SendTimerFires(c, name)
    \/ \E c \in CallIds : ProcClose(c)
    \/ \E c \in CallIds : CallCollected(c)

\* One user connects to the configured servers; cleanup() may run at any time.
NextShutdown ==
    \/ \E c \in Callers, s \in Servers : connectToServer(c, s)
    \/ \E a \in AttemptIds : ConnectResolves(a)
    \/ \E a \in AttemptIds, tools \in ToolLists : ListToolsResolves(a, tools)
    \/ \E c \in Callers : StarterResumes(c)
    \/ NextCleanup

\* initialize() alone: the discoveries and the events of their processes.
NextSequence ==
    \/ \E c \in CallIds, started \in BOOLEAN, throws \in BOOLEAN : loadServer(c, started, throws)
    \/ loadServerResumes
    \/ \E c \in CallIds : TimeoutFires(c)
    \/ \E c \in CallIds, name \in {"sendInit", "sendInitialized", "sendRequest"} :
          SendTimerFires(c, name)
    \/ \E c \in CallIds, l \in AllLines : StdoutData(c, l)
    \/ \E c \in CallIds : ProcExit(c)
    \/ \E c \in CallIds : ProcClose(c)
    \/ \E c \in CallIds : ProcError(c)
    \/ \E c \in CallIds : CallCollected(c)

\* Requests that name a server, known or not, to both managers.
NextNames ==
    \/ \E c \in Callers, s \in Servers \cup {UnknownServer} \cup InheritedKeys :
          getToolsFromServer(c, s)
    \/ \E a \in AttemptIds : ConnectResolves(a)
    \/ \E a \in AttemptIds : ConnectRejects(a)
    \/ \E a \in AttemptIds, tools \in ToolLists : ListToolsResolves(a, tools)
    \/ \E c \in Callers : StarterResumes(c)
    \/ \E c \in CallIds : loadServer(c, TRUE, FALSE)
    \/ loadServerResumes
    \/ \E c \in CallIds, s \in Servers \cup {UnknownServer} :
          executeServerTool(c, s, TRUE, FALSE, TRUE)
    \/ \E c \in CallIds : TimeoutFires(c)
    \/ \E c \in CallIds, name \in {"sendInit", "sendInitialized", "sendRequest"} :
          SendTimerFires(c, name)
    \/ \E c \in CallIds : ProcClose(c)
    \/ \E c \in CallIds : CallCollected(c)

\* Overlapping callers of one configured server, no cleanup.
InitConnect ==
    /\ LazyInit
    /\ config = {"weather"}
    /\ clients = Callers
    /\ MgrInit /\ slots = {} /\ serverArgs = LocalArgs /\ emits = {}
    /\ BotInit

\* Two users of the manager; one server is configured.
InitQuery ==
    /\ LazyInit
    /\ config = {"weather"}
    /\ clients = {1, 2}
    /\ MgrInit /\ slots = {} /\ serverArgs = LocalArgs /\ emits = {}
    /\ BotInit

\* The whole LazyMCPManager, cleanup included, with both configured servers.
InitLazy ==
    /\ LazyInit
    /\ config = Servers
    /\ clients = 1..NumCleanupCallers
    /\ MgrInit /\ slots = {} /\ serverArgs = LocalArgs /\ emits = {}
    /\ BotInit

\* MCPManager, one call at a time: every call in full detail.
InitCall ==
    /\ MgrInit
    /\ slots = {1}
    /\ serverArgs = ProxiedArgs
    /\ emits = ServerLines
    /\ LazyInit /\ config = Servers /\ clients = {}
    /\ BotInit

\* MCPManager with overlapping calls.
InitMgr ==
    /\ MgrInit
    /\ slots = CallIds
    /\ serverArgs = ProxiedArgs
    /\ emits = {Line("toolsResult", <<"get_alerts", "get_forecast">>)}
    /\ LazyInit /\ config = Servers /\ clients = {}
    /\ BotInit

\* MCPManager, one call at a time, servers that answer tools/list.
InitCatalog ==
    /\ MgrInit
    /\ slots = {1}
    /\ serverArgs = LocalArgs
    /\ emits = {Line("toolsResult", T) : T \in ToolLists}
    /\ LazyInit /\ config = Servers /\ clients = {}
    /\ BotInit

\* MCPManager, one call at a time, servers that print garbled text and log
\* lines besides their responses.
InitParse ==
    /\ MgrInit
    /\ slots = {1}
    /\ serverArgs = LocalArgs
    /\ emits = GarbledLines \cup {Line("noise", NoTools), Line("callError", NoTools),
                                  Line("callResult", NoTools),
                                  Line("toolsResult", <<"get_alerts", "get_forecast">>)}
    /\ LazyInit /\ config = Servers /\ clients = {}
    /\ BotInit

\* MCPManager after initialize() has registered both servers with their
\* tools; invocations may overlap.
InitPair ==
    /\ servers = [s \in Servers \cup {UnknownServer} |->
                    IF s \in Servers
                    THEN [present |-> TRUE, connected |-> TRUE,
                          tools |-> <<"get_alerts", "get_forecast">>]
                    ELSE Absent]
    /\ serverKeys = ConfigOrder
    /\ serverTools = [s \in Servers \cup {UnknownServer} |->
                        IF s \in Servers
                        THEN [present |-> TRUE, connected |-> FALSE,
                              tools |-> <<"get_alerts", "get_forecast">>]
                        ELSE Absent]
    /\ initSt = [next |-> Len(ConfigOrder) + 1, slot |-> None]
    /\ calls = [c \in CallIds |-> NoCall]
    /\ slots = {1, 2}
    /\ serverArgs = LocalArgs
    /\ emits = {Line("initResult", NoTools), Line("callResult", NoTools), Line("noise", NoTools)}
    /\ LazyInit /\ config = Servers /\ clients = {}
    /\ BotInit

\* MCPManager, one call at a time, servers that answer or stay silent.
InitStartup ==
    /\ MgrInit
    /\ slots = {1}
    /\ serverArgs = LocalArgs
    /\ emits = {Line("toolsResult", <<"get_alerts", "get_forecast">>), Line("callResult", NoTools)}
    /\ LazyInit /\ config = Servers /\ clients = {}
    /\ BotInit

\* MCPManager, one call at a time, servers whose tool results may mention tools.
InitDeliver ==
    /\ MgrInit
    /\ slots = {1}
    /\ serverArgs = LocalArgs
    /\ emits = PayloadLines \cup {Line("toolsResult", <<"get_alerts", "get_forecast">>),
                                  Line("initResult", NoTools), Line("callResult", NoTools)}
    /\ LazyInit /\ config = Servers /\ clients = {}
    /\ BotInit

\* MCPManager, one call at a time; the args of the second server are any
\* argument list, the servers print nothing.
InitPolicy ==
    /\ MgrInit
    /\ slots = {1}
    /\ serverArgs \in {[LocalArgs EXCEPT !["employees-server"] = args] : args \in ArgLists}
    /\ emits = {}
    /\ LazyInit /\ config = Servers /\ clients = {}
    /\ BotInit

\* One user of the manager; both servers are configured.
InitShutdown ==
    /\ LazyInit
    /\ config = Servers
    /\ clients = {1}
    /\ MgrInit /\ slots = {} /\ serverArgs = LocalArgs /\ emits = {}
    /\ BotInit

\* MCPManager, one call at a time, servers that answer tools/list with a
\* list, an empty list, or a list with a null entry.
InitRegistry ==
    /\ MgrInit
    /\ slots = {1}
    /\ serverArgs = LocalArgs
    /\ emits = BrokenLines \cup {Line("toolsResult", T) : T \in ToolLists}
    /\ LazyInit /\ config = Servers /\ clients = {}
    /\ BotInit

\* MCPManager with room for two calls at a time, servers that answer tools/list.
InitSequence ==
    /\ MgrInit
    /\ slots = {1, 2}
    /\ serverArgs = LocalArgs
    /\ emits = {Line("toolsResult", <<"get_alerts", "get_forecast">>)}
    /\ LazyInit /\ config = Servers /\ clients = {}
    /\ BotInit

\* Both managers, one user and one call at a time; one server is in the
\* configuration of LazyMCPManager.
InitNames ==
    /\ LazyInit
    /\ config = {"weather"}
    /\ clients = {1}
    /\ MgrInit /\ slots = {1} /\ serverArgs = LocalArgs /\ emits = {}
    /\ BotInit

SpecConnect == InitConnect /\ [][NextConnect]_vars
SpecLazy == InitLazy /\ [][NextLazy]_vars
SpecCall == InitCall /\ [][NextMgr]_vars
SpecMgr == InitMgr /\ [][NextMgr]_vars
SpecView == InitQuery /\ [][NextView]_vars
SpecQuery == InitQuery /\ [][NextQuery]_vars
SpecCatalog == InitCatalog /\ [][NextCatalog]_vars
SpecParse == InitParse /\ [][NextMgr]_vars
SpecPair == InitPair /\ [][NextPair]_vars
SpecShared == InitConnect /\ [][NextShared]_vars
SpecStartup == InitStartup /\ [][NextMgr]_vars
SpecDeliver == InitDeliver /\ [][NextMgr]_vars
SpecPolicy == InitPolicy /\ [][NextPolicy]_vars
SpecNames == InitNames /\ [][NextNames]_vars
SpecSequence == InitSequence /\ [][NextSequence]_vars
SpecRegistry == InitRegistry /\ [][NextMgr]_vars
SpecShutdown == InitShutdown /\ [][NextShutdown]_vars

\* A settled promise runs the continuations awaiting it (promise reaction jobs).
FairSpecConnect ==
    /\ SpecConnect
    /\ \A c \in Callers : WF_vars(StarterResumes(c)) /\ WF_vars(JoinerResumes(c))

\* Timers that are due fire and the events of a process that has ended are
\* delivered (the event loop is never blocked); a settled promise runs the
\* continuation of loadServer, and the loop of initialize() goes on to the next
\* server.  What the child process prints, and whether it exits by itself, is
\* up to the process.  The loop continuation is strongly fair because the
\* call slot it needs may be taken by an invocation in between.
FairSpecStartup ==
    /\ SpecStartup
    /\ \A c \in CallIds :
          /\ WF_vars(TimeoutFires(c))
          /\ \A name \in {"sendInit", "sendInitialized", "sendRequest"} :
                WF_vars(SendTimerFires(c, name))
          /\ WF_vars(ProcClose(c))
          /\ WF_vars(ProcError(c))
          /\ WF_vars(CallCollected(c))
    /\ WF_vars(loadServerResumes)
    /\ SF_vars(\E c \in CallIds, started \in BOOLEAN, throws \in BOOLEAN :
                  loadServer(c, started, throws))

\* ------------------------------------------------------------------ claims
Suspended(c) == caller[c].pc \in {"awaitStart", "awaitJoin", "awaitCall"}
ServerOf(a) == attempts[a].server
\* The failure of attempt a has been delivered to the caller that started it.
Delivered(a) == \A c \in Callers : ~(caller[c].pc = "awaitStart" /\ caller[c].att = a)
\* Attempt a is the most recent attempt for its server name.
LastFor(a) == \A b \in AttemptIds :
                 (attempts[b].st # "unused" /\ ServerOf(b) = ServerOf(a)) => b <= a
\* In this step caller c begins to refer to an attempt it did not refer to.
NewRef(c) == caller'[c].att # caller[c].att /\ caller'[c].att # None

\* C1 - dedup invariant: whatever the interleaving of the callers of
\* connectToServer, at most one connection attempt per server name is in
\* flight, and every caller suspended on an in-flight attempt awaits the one
\* attempt registered for that name (so _doConnect ran once for all of them).
C1_Dedup ==
    \A s \in Servers :
        /\ Cardinality(InFlightAttempts(s)) <= 1
        /\ \A c \in Callers :
              (caller[c].pc \in {"awaitStart", "awaitJoin"} /\ InFlight(caller[c].att)
                  /\ ServerOf(caller[c].att) = s)
              => connectionPromises[s] = caller[c].att

C1_Witness ==
    \E c1, c2 \in Callers :
        /\ caller[c1].pc = "awaitStart"
        /\ caller[c2].pc = "awaitJoin"
        /\ caller[c1].att = caller[c2].att
        /\ InFlight(caller[c1].att)

\* A caller suspended on an attempt resumes only when the attempt has settled,
\* and then with what the attempt produced.
C2_SameOutcome ==
    [][\A c \in Callers :
          (caller[c].pc \in {"awaitStart", "awaitJoin"} /\ caller'[c] # caller[c])
          => /\ attempts[caller[c].att].st \in {"resolved", "rejected"}
             /\ caller'[c].att = caller[c].att
             /\ caller'[c].pc = IF attempts[caller[c].att].st = "resolved"
                                THEN "returned" ELSE "threw"]_vars

\* A joiner has received the error of the attempt whose starter is still to resume.
C2_Witness ==
    \E c1, c2 \in Callers :
        /\ caller[c1].pc = "awaitStart"
        /\ caller[c2].pc = "threw"
        /\ caller[c2].att = caller[c1].att

\* Once the attempt has settled no caller stays suspended on it.
C2_NoneLeftPending ==
    \A c \in Callers :
        (caller[c].pc \in {"awaitStart", "awaitJoin"} /\ attempts[caller[c].att].st \in {"resolved", "rejected"})
            ~> (caller[c].pc \notin {"awaitStart", "awaitJoin"})

\* C3 - retry after failure: once an attempt has failed and the failure has
\* been delivered to its starter, neither map refers to it; if it is the last
\* attempt for its name both maps are empty for that name, and the next call
\* for that name starts a fresh attempt (a new _doConnect, a new spawn).
C3_FailedAttemptUnregistered ==
    \A a \in AttemptIds :
        (attempts[a].st = "rejected" /\ Delivered(a))
        => /\ connectionPromises[ServerOf(a)] # a
           /\ connectedServers[ServerOf(a)] # a
           /\ LastFor(a) => /\ connectionPromises[ServerOf(a)] = None
                            /\ connectedServers[ServerOf(a)] = None

C3_NextCallStartsFresh ==
    \A c \in Callers :
        (NewRef(c) /\ \E a \in AttemptIds :
                         /\ attempts[a].st = "rejected" /\ Delivered(a) /\ LastFor(a)
                         /\ ServerOf(a) = attempts'[caller'[c].att].server)
        => /\ caller'[c].pc = "awaitStart"
           /\ attempts[caller'[c].att].st = "unused"
           /\ attempts'[caller'[c].att].st = "connecting"

C3_RetryAfterFailure ==
    []C3_FailedAttemptUnregistered /\ [][C3_NextCallStartsFresh]_vars

\* A second attempt for a name runs after the first one failed.
C3_Witness ==
    \E a, b \in AttemptIds :
        /\ a < b
        /\ ServerOf(a) = ServerOf(b)
        /\ attempts[a].st = "rejected"
        /\ attempts[b].st = "connecting"

\* C4 - reuse: while a connection is stored for a name, a connectToServer /
\* getToolsFromServer call for that name returns the stored serverInfo at once
\* and starts no process; exactly one attempt for that name has not failed.
C4_CallReusesConnection ==
    \A c \in Callers :
        (~Suspended(c) /\ caller'[c] # caller[c]
            /\ caller'[c].pc \in {"reused", "awaitStart", "awaitJoin"}
            /\ connectedServers[attempts'[caller'[c].att].server] # None)
        => /\ caller'[c] = [pc |-> "reused",
                            att |-> connectedServers[attempts'[caller'[c].att].server]]
           /\ attempts' = attempts
           /\ connectionPromises' = connectionPromises

C4_OneSpawnWhileConnected ==
    \A s \in Servers :
        connectedServers[s] # None
        => {a \in AttemptIds : ServerOf(a) = s /\ attempts[a].st \in {"connecting", "listing", "resolved"}}
              = {connectedServers[s]}

C4_ReuseEstablished ==
    []C4_OneSpawnWhileConnected /\ [][C4_CallReusesConnection]_vars

C4_Witness ==
    \E c \in Callers :
        /\ caller[c].pc = "reused"
        /\ connectedServers[ServerOf(caller[c].att)] = caller[c].att

\* C2 - a caller that joined an in-flight attempt receives what the attempt
\* produced, exactly as the caller that started it (the serverInfo of that
\* attempt when it resolved, its error when it rejected), and once the attempt
\* has settled no caller stays suspended on it.
C2_JoinersShareOutcome == C2_SameOutcome /\ C2_NoneLeftPending

\* C7 - executeServerTool resolves the connection before calling: a call for a
\* configured server is never refused for want of an established connection.
C7_ExecuteEstablishesConnection ==
    \A c \in Callers : caller[c].pc # "notConnected"

\* A call slot holds a child process that has been spawned and has not ended.
CallProcesses(s) == {c \in CallIds : calls[c].server = s /\ calls[c].proc = "alive"}

\* C5 - at every moment at most one child process (in-flight attempt, live
\* connection or per-call process) exists per server name.
C5_OneProcessPerServer ==
    \A s \in Servers :
        Cardinality(LiveProcesses(s)) + Cardinality(CallProcesses(s)) <= 1

\* C6 - MCPManager writes tools/call only to a server that its registry
\* records as connected (handshake and discovery succeeded).
C6_CallOnlyWhenReady ==
    \A c \in CallIds :
        (calls[c].kind = "execute" /\ InSeq("tools/call", calls[c].written))
        => servers[calls[c].server].connected

\* The functional request of a call.
FunctionalRequest(c) == IF calls[c].kind = "discover" THEN "tools/list" ELSE "tools/call"
HandshakeOrder(c) == <<"initialize", "notifications/initialized", FunctionalRequest(c)>>

\* C8 - handshake write order: what has been written to the stdin of a child
\* process is always an initial part of the sequence initialize,
\* notifications/initialized, functional request (tools/list or tools/call).
C8_HandshakeWriteOrder ==
    \A c \in CallIds :
        /\ Len(calls[c].written) <= 3
        /\ \A i \in 1..Len(calls[c].written) : calls[c].written[i] = HandshakeOrder(c)[i]

\* A tool invocation has written all three messages.
C8_Witness ==
    \E c \in CallIds :
        /\ calls[c].kind = "execute"
        /\ calls[c].written = HandshakeOrder(c)

\* The response to initialize is among the output received by the call.
InitializeAnswered(c) ==
    \E i \in 1..Len(calls[c].stdout) :
        LineId(calls[c].stdout[i]) = 1 /\ calls[c].stdout[i].part # "head"

\* C9 - no pipelining: tools/list or tools/call is written only after the
\* response to the initialize request has been received.
C9_NoPipelining ==
    \A c \in CallIds :
        InSeq(FunctionalRequest(c), calls[c].written) => InitializeAnswered(c)

\* C10 - discovery never raises: the promise of discoverServerTools is never
\* rejected, it is resolved as soon as the discovery timeout has fired or been
\* cleared, and on timeout, on close before discovery and when the process
\* cannot be started it is resolved with the empty list.
C10_DiscoveryNeverRaises ==
    \A c \in CallIds :
        calls[c].kind = "discover"
        => /\ calls[c].outcome # "rejected"
           /\ (\A t \in calls[c].timers : t.name # "timeout") => calls[c].outcome = "resolved"
           /\ calls[c].cause \in {"timeout", "close", "error"}
                 => (calls[c].outcome = "resolved" /\ calls[c].tools = NoTools)

\* The server received tools/list and did not answer within the discovery bound.
C10_Witness ==
    \E c \in CallIds :
        /\ calls[c].kind = "discover"
        /\ calls[c].cause = "timeout"
        /\ calls[c].written = HandshakeOrder(c)
        /\ calls[c].outcome = "resolved" /\ calls[c].tools = NoTools

\* Discovery ended by the close of the process, and by a failure to start it.
C10_WitnessClose ==
    \E c \in CallIds :
        calls[c].kind = "discover" /\ calls[c].cause = "close" /\ calls[c].outcome = "resolved"
C10_WitnessSpawnError ==
    \E c \in CallIds :
        calls[c].kind = "discover" /\ calls[c].cause = "error" /\ calls[c].outcome = "resolved"

\* The invocation bound of call c elapsed while its process was alive and no
\* tool result had been recognised: only the timeout callback kills the
\* process of a call whose flag is not set.
InvocationTimedOut(c) ==
    calls[c].kind = "execute" /\ calls[c].killed /\ ~calls[c].flag

C12_NoProcessLeak ==
    \A c \in CallIds :
        calls[c].outcome # "pending" => calls[c].proc # "alive"

\* The complete lines received by call c so far.
Received(c) == {n \in 1..Len(calls[c].stdout) : calls[c].stdout[n].part # "head"}
\* The line on which the stdout handler of call c settled the call.
SettlingLine(c) ==
    IF calls[c].kind = "discover"
    THEN calls[c].stdout[First({n \in Received(c) : DiscoverAccepts(calls[c].stdout[n])})]
    ELSE calls[c].stdout[First({n \in Received(c) : ExecAccepts(calls[c].stdout[n])})]

\* C13 - response correlation by id: a call settled by a line of stdout was
\* settled by the response to its own request: id 3 (tools/call) for
\* executeServerTool, id 2 (tools/list) for discoverServerTools.
C13_CorrelatedById ==
    \A c \in CallIds :
        (calls[c].kind # "none" /\ calls[c].cause = "data")
        => LineId(SettlingLine(c)) = IF calls[c].kind = "discover" THEN 2 ELSE 3

\* The response to tools/call with an error member has arrived at call c
\* before anything that settled the call.
ErrorResponseFirst(c) ==
    /\ calls[c].kind = "execute"
    /\ \E n \in Received(c) :
          /\ ParsedError(calls[c].stdout[n]) # "none"
          /\ \A m \in 1..(n - 1) : ~ExecAccepts(calls[c].stdout[m])

\* C14 - a response to tools/call that carries an error settles the call as a
\* rejection when it arrives, and one that carries a result settles it as a
\* success with the result payload.
C14_ErrorRejects ==
    \A c \in CallIds :
        /\ ErrorResponseFirst(c) => calls[c].outcome = "rejected"
        /\ (calls[c].kind = "execute" /\ calls[c].cause = "data")
              => (calls[c].outcome = "resolved" /\ calls[c].value = ExecValue(SettlingLine(c)))

\* The tools/list response of the server has arrived completely at call c.
ToolsAnswered(c) == \E n \in Received(c) : calls[c].stdout[n].k = "toolsResult"
\* The tool list of the first tools/list response received.
AnsweredTools(c) ==
    calls[c].stdout[First({n \in Received(c) : calls[c].stdout[n].k = "toolsResult"})].tools

\* A discovery settled by the output resolved with the list of the response.
C15_ResolvedWithResponse ==
    \A c \in CallIds :
        (calls[c].kind = "discover" /\ calls[c].cause = "data")
        => /\ calls[c].outcome = "resolved"
           /\ ToolsAnswered(c)
           /\ calls[c].tools = AnsweredTools(c)

\* The step in which the tools/list response becomes complete, in one chunk or
\* as the rest of a line begun in an earlier chunk, resolves a pending discovery.
C15_ResolvedOnArrival ==
    \A c \in CallIds :
        (calls[c].kind = "discover" /\ calls[c].outcome = "pending"
            /\ calls'[c].kind = "discover" /\ ~ToolsAnswered(c) /\ ToolsAnswered(c)')
        => /\ calls'[c].outcome = "resolved"
           /\ calls'[c].tools = AnsweredTools(c)'

CallAnswered(c) ==
    \E n \in Received(c) :
        calls[c].stdout[n].k \in {"callResult", "contentOnly", "resultAndContent"}

\* C16 - result-shape normalization: an invocation does not stay pending once
\* an answer with a result or a top-level content has arrived; settled by a
\* line with a result R it resolved with R, also when the line has a top-level
\* content as well; settled by a line with only a top-level content C it
\* resolved with {content: C}.
C16_ResultShape ==
    \A c \in CallIds :
        calls[c].kind = "execute"
        => /\ CallAnswered(c) => calls[c].outcome # "pending"
           /\ calls[c].cause = "data"
                 => /\ calls[c].outcome = "resolved"
                    /\ SettlingLine(c).k = "callResult" => calls[c].value = "callPayload"
                    /\ SettlingLine(c).k = "resultAndContent" => calls[c].value = "callPayload"
                    /\ SettlingLine(c).k = "contentOnly" => calls[c].value = "contentWrapped"

\* An invocation resolved with the wrapped top-level content.
C16_Witness ==
    \E c \in CallIds :
        /\ calls[c].kind = "execute" /\ calls[c].cause = "data"
        /\ SettlingLine(c).k = "contentOnly"
        /\ calls[c].value = "contentWrapped"

\* An invocation resolved on a line that has both a result and a top-level content.
C16_WitnessBoth ==
    \E c \in CallIds :
        /\ calls[c].kind = "execute" /\ calls[c].cause = "data"
        /\ SettlingLine(c).k = "resultAndContent"

\* What the caller of call c gets.
Delivery(c) == <<calls[c].outcome, calls[c].value, calls[c].tools>>

\* C17 - at most one settlement per call: once a call has settled, no later
\* event of that call (a further line, close, error, the timeout, a failed
\* write) changes what is delivered to the caller or the registry (which only
\* the resumption of loadServer, consuming the outcome, updates).
C17_SettledOnce ==
    [][\A c \in CallIds :
          (calls[c].outcome # "pending" /\ calls'[c].kind # "none")
          => /\ Delivery(c)' = Delivery(c)
             /\ (calls'[c] # calls[c] /\ calls'[c].awaited = calls[c].awaited)
                   => (servers' = servers /\ serverTools' = serverTools)]_vars

\* A discovery that resolved [] on timeout has since received the tools/list
\* response with a non-empty list, and an invocation rejected for a failed
\* write has since been closed.
C17_Witness ==
    \E c \in CallIds :
        /\ calls[c].kind = "discover" /\ calls[c].cause = "timeout"
        /\ ToolsAnswered(c) /\ AnsweredTools(c) # NoTools
        /\ calls[c].outcome = "resolved" /\ calls[c].tools = NoTools

C17_WitnessInvocation ==
    \E c \in CallIds :
        /\ calls[c].kind = "execute" /\ calls[c].cause = "write"
        /\ calls[c].proc = "closed"
        /\ calls[c].outcome = "rejected"

\* initialize() has returned.
InitializeReturned == initSt.next = Len(ConfigOrder) + 1
\* The configured server names.
Configured == {ConfigOrder[i] : i \in 1..Len(ConfigOrder)}

\* After initialize() every configured server is registered in both maps, a
\* server without tools is recorded as not connected, one with tools as connected.
C18_AllRegistered ==
    /\ InitializeReturned
          => \A s \in Configured : servers[s].present /\ serverTools[s].present
    /\ \A s \in Configured :
          servers[s].present
          => /\ serverTools[s].present /\ serverTools[s].tools = servers[s].tools
             /\ servers[s].connected = (servers[s].tools # NoTools)

\* The step in which loadServer registers a server: what is recorded depends on
\* the discovery of that server alone (its tools, or [] and connected = false
\* when it failed), and no other entry changes.
C18_LoadIsolated ==
    \A c \in CallIds :
        (initSt.slot = c /\ initSt'.slot # c)
        => LET s == calls[c].server IN
           /\ servers'[s].present
           /\ servers'[s].tools = IF calls[c].cause = "data" THEN AnsweredTools(c) ELSE NoTools
           /\ calls[c].cause \in {"timeout", "close", "error"}
                 => (servers'[s].tools = NoTools /\ ~servers'[s].connected)
           /\ \A o \in Servers \ {s} :
                 servers'[o] = servers[o] /\ serverTools'[o] = serverTools[o]

\* C18 - failure isolation at startup: initialize() registers every configured
\* server whatever subset fails, a failed server with tools [] and connected =
\* false, and the entry of a server depends on its own discovery only.
C18_StartupIsolation ==
    []C18_AllRegistered /\ [][C18_LoadIsolated]_vars

\* initialize() has returned with the first server failed and the second one
\* registered with its tools.
C18_Witness ==
    /\ InitializeReturned
    /\ servers[ConfigOrder[1]].present /\ ~servers[ConfigOrder[1]].connected
    /\ servers[ConfigOrder[2]].connected
    /\ servers[ConfigOrder[2]].tools = <<"get_alerts", "get_forecast">>

\* The step in which cleanup() returns.
CleanupReturns == cleanupSt.pc # "idle" /\ cleanupSt'.pc = "idle"

\* C19 - best-effort shutdown: a failed close does not end cleanup(); when
\* cleanup() returns, the loop has visited every registered server name and
\* called close on the client registered under it, whichever closes failed,
\* and connectedServers and connectionPromises are both empty.
C19_BestEffortShutdown ==
    [][CleanupReturns
          => /\ cleanupSt.idx = Len(connectedKeys)
             /\ \A s \in Servers :
                   connectedServers[s] # None
                   => \E a \in AttemptIds : attempts[a].server = s /\ attempts[a].closeCalled
             /\ \A s \in Servers :
                   connectedServers'[s] = None /\ connectionPromises'[s] = None
             /\ connectedKeys' = << >>]_vars

\* cleanup() has returned after the close of one client failed and the
\* connection of the other server was closed.
C19_Witness ==
    /\ cleanupSt.pc = "idle"
    /\ \A s \in Servers : connectedServers[s] = None /\ connectionPromises[s] = None
    /\ \E a, b \in AttemptIds :
          /\ attempts[a].server # attempts[b].server
          /\ attempts[a].closeCalled /\ ~attempts[a].clientClosed
          /\ attempts[b].closeCalled /\ attempts[b].clientClosed /\ attempts[b].transportClosed

\* When cleanup() returns no child process is alive and no connection attempt
\* is in flight (an attempt in flight registers its connection when it completes).
C20_NothingLeft ==
    CleanupReturns
    => \A a \in AttemptIds :
          attempts'[a].proc # "alive" /\ attempts'[a].st \notin {"connecting", "listing"}

\* C20 - after cleanup() has returned the manager holds no connection, no live
\* child process and no attempt that will register one later, and at no time
\* are two attempts for the same server name in flight, cleanup() included.
C20_CleanAfterCleanup ==
    /\ [][C20_NothingLeft]_vars
    /\ [](\A s \in Servers : Cardinality(InFlightAttempts(s)) <= 1)

\* The attempt that was in flight when cleanup() ran has registered its
\* connection after cleanup() returned.
C20_LateRegistration ==
    \E a \in AttemptIds :
        /\ attempts[a].st = "resolved"
        /\ cleanupSt.pc = "idle"
        /\ connectedServers[attempts[a].server] = a
        /\ connectionPromises[attempts[a].server] = None
        /\ \E c \in Callers : caller[c].pc = "awaitStart" /\ caller[c].att = a

\* The connection state of LazyMCPManager.
ConnectionState == <<connectedServers, connectedKeys, connectionPromises, attempts>>

\* As long as nothing has asked for a connection the manager is as constructed:
\* no entry in either map, no process, and a summary taken then reports 0.
C21_EmptyUntilAsked ==
    UsedAttempts = 0
    => /\ \A s \in Servers : connectedServers[s] = None /\ connectionPromises[s] = None
       /\ connectedKeys = << >>
       /\ \A a \in AttemptIds : attempts[a].proc = "none"
       /\ lastReturn.op = "getServerSummary" => lastReturn.value.totalServers = 0

\* The operations that only read leave the connection state alone, and a
\* process is started only in a step in which a caller of connectToServer /
\* getToolsFromServer begins to await the attempt it started.
C21_OnlyConnectStarts ==
    /\ lastReturn' # lastReturn => ConnectionState' = ConnectionState
    /\ \A a \in AttemptIds :
          (attempts[a].st = "unused" /\ attempts'[a].st # "unused")
          => \E c \in Callers : /\ ~Suspended(c)
                                /\ caller'[c] = [pc |-> "awaitStart", att |-> a]

\* C21 - lazy connection: a newly constructed LazyMCPManager has no connected
\* server (getServerSummary().totalServers = 0) and no attempt in flight;
\* getAvailableServers, getServerDescription and getServerSummary never start a
\* process or change connectedServers / connectionPromises; a connection is
\* started only by connectToServer / getToolsFromServer.
C21_LazyConnection ==
    []C21_EmptyUntilAsked /\ [][C21_OnlyConnectStarts]_vars

\* The servers were listed and the summary taken before anything was
\* connected: the summary reports no server.
C21_Witness ==
    /\ UsedAttempts = 0
    /\ lastReturn = [op |-> "getServerSummary", value |-> [totalServers |-> 0, servers |-> << >>]]

\* The configured servers have been listed while nothing is connected.
C21_WitnessListed ==
    /\ UsedAttempts = 0
    /\ lastReturn.op = "getAvailableServers"
    /\ Len(lastReturn.value) = 1

\* The call of the manager made for the query of c threw.
ToolPathFailed(c) ==
    caller[c].pc \in {"configError", "notFound", "threw", "notConnected", "callThrew", "callTimedOut"}
Notices == {"noticeFailed", "noticeUnavailable"}

\* C22 - fallback on MCP failure: when a step of the tool path of
\* processUserQuery throws, a failure notice is sent and then the direct LLM
\* path is taken, whose reply (or apology) ends the query; when the tool path
\* succeeds the tool result is the last reply and the direct LLM path is not
\* taken; every finished query has sent at least one reply.
C22_FallbackOnFailure ==
    \A c \in Callers :
        LET q == query[c]
            n == Len(q.replies)
        IN /\ (ToolPathFailed(c) /\ q.llm = 1) => (n >= 1 /\ \E i \in 1..n : q.replies[i] \in Notices)
           /\ q.pc = "done"
                 => /\ n >= 1
                    /\ ToolPathFailed(c)
                          => /\ n >= 2
                             /\ q.replies[n - 1] \in Notices
                             /\ q.replies[n] \in {"llmReply", "sorry"}
                             /\ q.llm = 1
                    /\ caller[c].pc = "callReturned"
                          => (q.replies = <<"using", "result">> /\ q.llm = 0)

\* Tool discovery failed for a query: the notice and then the reply of the
\* model were sent.
C22_Witness ==
    \E c \in Callers :
        /\ query[c].pc = "done"
        /\ caller[c].pc = "threw"
        /\ query[c].replies = <<"noticeFailed", "llmReply">>

\* A query answered by the tool, and one whose tool call was refused because
\* the selected tool names a server that is not connected.
C22_WitnessToolResult ==
    \E c \in Callers :
        query[c].pc = "done" /\ caller[c].pc = "callReturned" /\ query[c].llm = 0

C22_WitnessUnavailable ==
    \E c \in Callers :
        /\ query[c].pc = "done" /\ caller[c].pc = "notConnected"
        /\ query[c].replies = <<"using", "noticeUnavailable", "llmReply">>

\* The records of the tools registered for the i-th configured server (none
\* while that server is not registered or has no tools).
DiscoveredOf(i) ==
    LET s == ConfigOrder[i]
        T == servers[s].tools
    IN [n \in 1..Len(T) |-> [serverName |-> s, toolName |-> T[n]]]

\* C23 - the flattened tool catalog returned by getAvailableToolsForLLM /
\* getAllTools has exactly one record per discovered tool, grouped by server
\* in configuration (registration) order and in discovery order within a
\* server, and building it modifies neither `servers` nor `serverTools`.
C23_Catalog ==
    [][(lastReturn' # lastReturn
           /\ lastReturn'.op \in {"getAvailableToolsForLLM", "getAllTools"})
       => /\ lastReturn'.value = DiscoveredOf(1) \o DiscoveredOf(2)
          /\ Len(lastReturn'.value) = Len(servers[ConfigOrder[1]].tools)
                                        + Len(servers[ConfigOrder[2]].tools)
          /\ servers' = servers /\ serverTools' = serverTools /\ serverKeys' = serverKeys
          /\ calls' = calls]_vars

\* The catalog of two servers with two tools each has been returned.
C23_Witness ==
    /\ lastReturn.op = "getAvailableToolsForLLM"
    /\ lastReturn.value =
          << [serverName |-> "weather", toolName |-> "get_alerts"],
             [serverName |-> "weather", toolName |-> "get_forecast"],
             [serverName |-> "employees-server", toolName |-> "get_alerts"],
             [serverName |-> "employees-server", toolName |-> "get_forecast"] >>

\* The catalog taken while only the first server was registered.
C23_WitnessPartial ==
    /\ lastReturn.op = "getAllTools"
    /\ Len(lastReturn.value) = 2
    /\ ~servers[ConfigOrder[2]].present

\* The descriptors getToolsFromServer returns to caller c: one per tool of the
\* serverInfo the call received.
Descriptors(c) ==
    LET T == attempts[caller[c].att].tools
    IN [i \in 1..Len(T) |-> [serverName |-> ServerOf(caller[c].att), toolName |-> T[i]]]

\* On the client of every attempt connect and listTools are called at most
\* once, listTools only after connect; on an established connection each was
\* called exactly once.
C24_OncePerConnection ==
    \A a \in AttemptIds :
        /\ attempts[a].connects <= 1 /\ attempts[a].lists <= attempts[a].connects
        /\ attempts[a].st = "resolved" => (attempts[a].connects = 1 /\ attempts[a].lists = 1)

\* A call that is served by an established connection issues no request on it
\* and returns the descriptors of the list recorded when it was established.
C24_ServedFromRecord ==
    \A c \in Callers :
        (caller'[c] # caller[c] /\ caller'[c].pc \in {"reused", "returned"})
        => LET a == caller'[c].att IN
           /\ attempts'[a] = attempts[a]
           /\ attempts[a].st = "resolved"
           /\ Descriptors(c)' = [i \in 1..Len(attempts[a].tools) |->
                                    [serverName |-> ServerOf(a), toolName |-> attempts[a].tools[i]]]

\* C24 - handshake and discovery run once per connection: for each connection
\* established by LazyMCPManager, client.connect and client.listTools are each
\* called exactly once, and any later getToolsFromServer call for that server
\* returns descriptors built from the tool list recorded at connect time
\* without a new tools/list request.
C24_HandshakeOnce ==
    []C24_OncePerConnection /\ [][C24_ServedFromRecord]_vars

\* Two calls were served by the same connection, the later one from the
\* stored entry, and tools/list was requested once.
C24_Witness ==
    \E c1, c2 \in Callers :
        /\ caller[c1].pc = "returned" /\ caller[c2].pc = "reused"
        /\ caller[c1].att = caller[c2].att
        /\ attempts[caller[c1].att].lists = 1
        /\ Len(Descriptors(c2)) = 2

\* The connection of attempt a has failed: its process has died.
Dead(a) == attempts[a].st = "resolved" /\ attempts[a].proc = "dead"

C25_DeadServed ==
    \E c \in Callers :
        /\ caller[c].pc = "reused"
        /\ Dead(caller[c].att)
        /\ connectedServers[ServerOf(caller[c].att)] = caller[c].att

\* Handshake and tools/list both succeeded on the connection of attempt a.
BothSucceeded(a) ==
    attempts[a].st = "resolved" /\ attempts[a].connects = 1 /\ attempts[a].lists = 1

\* A call that returned has the serverInfo of a connection on which both steps
\* succeeded; a call that threw after awaiting an attempt awaited one that
\* failed, and that attempt is not registered.
C26_ReturnedMeansReady ==
    \A c \in Callers :
        /\ caller[c].pc \in {"reused", "returned"} => BothSucceeded(caller[c].att)
        /\ caller[c].pc = "threw"
              => /\ attempts[caller[c].att].st = "rejected"
                 /\ connectedServers[ServerOf(caller[c].att)] # caller[c].att

\* When the handshake or tools/list fails, connectedServers has no entry for
\* the server of the attempt, and the callers awaiting it are not served.
C26_FailureRegistersNothing ==
    \A a \in AttemptIds :
        (attempts[a].st \in {"connecting", "listing"} /\ attempts'[a].st = "rejected")
        => /\ connectedServers'[ServerOf(a)] = None
           /\ \A c \in Callers :
                 (caller[c].att = a /\ Suspended(c)) => caller'[c] = caller[c]

\* C26 - tool descriptors come only from Ready connections: getToolsFromServer
\* returns descriptors only after both the handshake and tools/list succeeded
\* on the connection; if either fails the call throws, returns no descriptors,
\* and no entry for that server is in connectedServers.
C26_OnlyFromReady ==
    []C26_ReturnedMeansReady /\ [][C26_FailureRegistersNothing]_vars

\* The handshake succeeded and tools/list failed: the call threw and nothing
\* is registered for the server.
C26_Witness ==
    \E c \in Callers :
        /\ caller[c].pc = "threw"
        /\ attempts[caller[c].att].connects = 1 /\ attempts[caller[c].att].lists = 1
        /\ connectedServers[ServerOf(caller[c].att)] = None

\* The output received by call c holds a JSON-RPC response with a result.
OutputHasResult(c) ==
    \E n \in 1..Len(calls[c].stdout) :
        ParsesAsJson(calls[c].stdout[n]) /\ ParsedResult(calls[c].stdout[n]) # "none"

\* C27 - premature process exit is a failure: an invocation whose process
\* closed before a result was recognised and whose output holds no JSON-RPC
\* result is rejected, not resolved with a value.
C27_PrematureExitRejects ==
    \A c \in CallIds :
        (calls[c].kind = "execute" /\ calls[c].cause = "close" /\ ~OutputHasResult(c))
        => calls[c].outcome = "rejected"

\* The process wrote nothing and closed: the invocation resolved with the
\* placeholder content.
C27_ResolvedWithPlaceholder ==
    \E c \in CallIds :
        /\ calls[c].kind = "execute" /\ calls[c].cause = "close"
        /\ calls[c].stdout = << >>
        /\ calls[c].outcome = "resolved" /\ calls[c].value = "noResultPlaceholder"

\* A line that is not valid JSON: a log line, garbled text, or the beginning
\* of a line whose rest has not arrived.
Malformed(l) == l.k \in {"noise", "garbledTools", "garbledResult"} \/ l.part = "head"

\* A line that is malformed, or valid JSON without the result shape the call
\* looks for (result.tools for a discovery, result or content for an invocation).
NoResultShape(kind, l) ==
    \/ Malformed(l)
    \/ kind = "discover" /\ l.k # "toolsResult"
    \/ kind = "execute" /\ l.k = "callError"

\* The response the call waits for, complete.
ValidResponse(kind, l) ==
    /\ l.part # "head"
    /\ IF kind = "discover" THEN l.k = "toolsResult"
       ELSE l.k \in {"callResult", "contentOnly", "resultAndContent"}

\* In this step output arrives at call c (a line, or the rest of one).
Arrives(c) == calls'[c].kind = calls[c].kind /\ calls'[c].stdout # calls[c].stdout
LastLine(r) == r.stdout[Len(r.stdout)]

\* The arrival of a line without a result shape changes nothing but the
\* accumulated output of the call.
C28_IgnoredLine ==
    \A c \in CallIds :
        (Arrives(c) /\ NoResultShape(calls[c].kind, LastLine(calls'[c])))
        => calls'[c] = [calls[c] EXCEPT !.stdout = calls'[c].stdout]

\* The arrival of the valid response resolves a pending call, whatever lines
\* came before it.
C28_LaterLineRecognised ==
    \A c \in CallIds :
        (Arrives(c) /\ calls[c].outcome = "pending"
            /\ ValidResponse(calls[c].kind, LastLine(calls'[c])))
        => (calls'[c].outcome = "resolved" /\ calls'[c].cause = "data")

\* C28 - malformed or irrelevant output is never fatal: a stdout line that is
\* not valid JSON, or valid JSON without a recognised result shape, neither
\* settles nor fails the pending discoverServerTools / executeServerTool call,
\* and a valid response line arriving later is still recognised.
C28_MalformedNeverFatal ==
    [][C28_IgnoredLine /\ C28_LaterLineRecognised]_vars

\* A discovery resolved by the tools/list response that followed garbled text
\* on which JSON.parse had thrown.
C28_Witness ==
    \E c \in CallIds :
        /\ calls[c].kind = "discover" /\ calls[c].cause = "data"
        /\ Len(calls[c].stdout) = 2
        /\ calls[c].stdout[1].k = "garbledTools"
        /\ calls[c].tools = <<"get_alerts", "get_forecast">>

\* An invocation resolved by the result that followed garbled text.
C28_WitnessInvocation ==
    \E c \in CallIds :
        /\ calls[c].kind = "execute" /\ calls[c].cause = "data"
        /\ Len(calls[c].stdout) = 2
        /\ calls[c].stdout[1].k = "garbledResult"
        /\ calls[c].value = "callPayload"

\* The tools/call request of invocation c is outstanding.
Outstanding(c) ==
    /\ calls[c].kind = "execute" /\ calls[c].outcome = "pending"
    /\ calls[c].proc = "alive"
    /\ InSeq("tools/call", calls[c].written)

\* An invocation resolved by output resolved with the value of a response that
\* its own process wrote in answer to its own tools/call request.
C29_OwnResult ==
    \A c \in CallIds :
        (calls[c].kind = "execute" /\ calls[c].cause = "data")
        => /\ calls[c].outcome = "resolved"
           /\ InSeq("tools/call", calls[c].written)
           /\ \E n \in Received(c) : /\ AnswersRequest(calls[c].stdout[n]) = "tools/call"
                                     /\ calls[c].value = ExecValue(calls[c].stdout[n])

\* An event of one invocation changes nothing of another one.
C29_Independent ==
    \A c, d \in CallIds :
        (c # d /\ calls'[c] # calls[c]) => calls'[d] = calls[d]

\* C29 - concurrent invocations are independently correlated: of two
\* executeServerTool calls in flight at the same time each resolves with the
\* result produced for its own request, in whatever order the responses
\* arrive, and never with the result of the other call.
C29_IndependentCalls ==
    []C29_OwnResult /\ [][C29_Independent]_vars

\* Two invocations with outstanding requests, and one of two overlapping
\* invocations resolved while the request of the other is outstanding.
C29_Witness ==
    \E c, d \in CallIds :
        /\ c # d
        /\ Outstanding(c)
        /\ calls[d].kind = "execute" /\ calls[d].cause = "data"
        /\ calls[d].stdout = <<Line("initResult", NoTools), Line("callResult", NoTools)>>
        /\ calls[d].value = "callPayload"

C29_WitnessBothOutstanding ==
    \E c, d \in CallIds : c # d /\ Outstanding(c) /\ Outstanding(d)

\* In this step the tool call of caller c times out.
TimesOut(c) == caller[c].pc = "awaitCall" /\ caller'[c].pc = "callTimedOut"

\* C30 - sibling failure on timeout: when a tool call on a shared connection
\* times out, the process of the connection is terminated, and no other call
\* on that connection returns a result afterwards (the calls outstanding on it
\* are rejected).
C30_SiblingFailure ==
    [][\A c \in Callers :
          /\ TimesOut(c) => attempts'[caller[c].att].proc # "alive"
          /\ (caller[c].pc = "awaitCall" /\ caller'[c].pc = "callReturned")
                => \A d \in Callers :
                      ~(caller[d].pc = "callTimedOut" /\ caller[d].att = caller[c].att)]_vars

\* A call timed out, the process of the connection is still alive, and the
\* call of the other caller on the same connection returned a result.
C30_SiblingSucceeded ==
    \E c, d \in Callers :
        /\ caller[c].pc = "callTimedOut" /\ caller[d].pc = "callReturned"
        /\ caller[c].att = caller[d].att
        /\ attempts[caller[c].att].proc = "alive"

\* A call timed out while the call of the other caller on the same connection
\* is still pending and nothing has ended the process.
C30_SiblingStillPending ==
    \E c, d \in Callers :
        /\ caller[c].pc = "callTimedOut" /\ caller[d].pc = "awaitCall"
        /\ caller[c].att = caller[d].att
        /\ attempts[caller[c].att].proc = "alive"

\* Call c has been made and its promise is pending.
PendingCall(c) == calls[c].kind # "none" /\ calls[c].outcome = "pending"

\* Every discoverServerTools / executeServerTool call settles.
C31_CallsSettle ==
    \A c \in CallIds : PendingCall(c) ~> (calls[c].outcome # "pending")

\* initialize(), once called, returns.
C31_InitializeReturns == (initSt.next > 0) ~> InitializeReturned

\* C31 - every call eventually settles: with timers and process events
\* scheduled fairly, every discoverServerTools and every executeServerTool call
\* resolves or rejects whatever the tool server does (never answering
\* included), and initialize() eventually returns.
C31_EventuallySettles == C31_CallsSettle /\ C31_InitializeReturns

\* An invocation of a server that never printed anything has been rejected by
\* its timeout, after initialize() had returned with both discoveries
\* unanswered.
C31_Witness ==
    /\ InitializeReturned
    /\ \A s \in Configured : servers[s].present /\ servers[s].tools = NoTools
    /\ \E c \in CallIds :
          /\ calls[c].kind = "execute" /\ calls[c].stdout = << >>
          /\ calls[c].outcome = "rejected" /\ calls[c].cause = "timeout"

\* A complete response to tools/call that carries a result.
CallResultLine(l) ==
    l.part # "head" /\ l.k \in {"callResult", "resultAndContent", "callResultTools"}

\* In this step the response to tools/call with a result arrives, complete, at
\* invocation c, whose promise is pending (so its timeout has not fired).
ResultArrives(c) ==
    /\ calls[c].kind = "execute" /\ calls[c].outcome = "pending"
    /\ Arrives(c)
    /\ CallResultLine(LastLine(calls'[c]))

\* C32 - every successful result is delivered: when the response to
\* tools/call carrying a result arrives before the invocation timeout,
\* executeServerTool resolves with that result, whatever the payload.
C32_ResultDelivered ==
    [][\A c \in CallIds :
          ResultArrives(c)
          => /\ calls'[c].outcome = "resolved"
             /\ calls'[c].value = ParsedResult(LastLine(calls'[c]))]_vars

\* The response had arrived, was ignored, and the call ended in a timeout.
C32_IgnoredThenTimeout ==
    \E c \in CallIds :
        /\ calls[c].kind = "execute"
        /\ calls[c].outcome = "rejected" /\ calls[c].cause = "timeout"
        /\ calls[c].stdout # << >> /\ CallResultLine(calls[c].stdout[1])
        /\ calls[c].timers = {}

\* A result that does not mention tools is delivered on arrival.
C32_PlainDelivered ==
    \E c \in CallIds :
        /\ calls[c].kind = "execute" /\ calls[c].cause = "data"
        /\ calls[c].outcome = "resolved" /\ calls[c].value = "callPayload"

\* Some configured argument of server s has the substring http.
Remote(s) ==
    \E i \in 1..Len(serverArgs[s]) :
        \E j \in 1..Len(serverArgs[s][i]) :
            /\ j + 3 <= Len(serverArgs[s][i])
            /\ serverArgs[s][i][j] = "h" /\ serverArgs[s][i][j + 1] = "t"
            /\ serverArgs[s][i][j + 2] = "t" /\ serverArgs[s][i][j + 3] = "p"

\* The bound of the pending timeout of call c, 0 when none is pending.
Bound(c) ==
    IF \E t \in calls[c].timers : t.name = "timeout"
    THEN (CHOOSE t \in calls[c].timers : t.name = "timeout").at
    ELSE 0

\* C33 - per-server timeout policy: the bound of an invocation is 25000 ms if
\* and only if some configured argument of the server contains 'http', and
\* 15000 ms otherwise; the bound of a discovery is 12000 ms for every server.
C33_TimeoutPolicy ==
    \A c \in CallIds :
        Bound(c) # 0
        => Bound(c) = IF calls[c].kind = "discover" THEN 12000
                      ELSE IF Remote(calls[c].server) THEN 25000 ELSE 15000

\* An invocation with the longer bound on a server whose second argument has
\* http in the middle, after the discovery of that server ran with the bound
\* of every server.
C33_Witness ==
    \E c \in CallIds :
        /\ calls[c].kind = "execute" /\ Bound(c) = 25000
        /\ serverArgs[calls[c].server] = <<ArgScript, ArgFlagUrl>>

\* An invocation with the shorter bound on a server whose arguments come close
\* to containing http.
C33_WitnessLocal ==
    \E c \in CallIds :
        /\ calls[c].kind = "execute" /\ Bound(c) = 15000
        /\ serverArgs[calls[c].server] = <<ArgUpper, ArgSplit>>

\* In this step the client.close() that cleanup() awaits settles.
ClientCloseSettles == cleanupSt.pc = "closingClient" /\ cleanupSt'.pc # "closingClient"

\* C34 - guaranteed release per connection during shutdown: for every
\* connection cleanup() visits, close is invoked on the client and then on its
\* transport, also when closing the client fails.
C34_TransportCloseInvoked ==
    [][ClientCloseSettles => cleanupSt'.pc = "closingTransport"]_vars

\* cleanup() has returned; a connection that was registered when it started
\* had close called on its client, not on its transport, and its child process
\* is alive.
C34_TransportLeftOpen ==
    /\ cleanupSt.pc = "idle"
    /\ \A s \in Servers : connectedServers[s] = None
    /\ \E a \in AttemptIds :
          /\ attempts[a].st = "resolved" /\ attempts[a].closeCalled
          /\ ~attempts[a].clientClosed /\ ~attempts[a].transportClosed
          /\ attempts[a].proc = "alive"

\* The client of a connection closed normally and its transport was closed too.
C34_BothClosed ==
    \E a \in AttemptIds :
        attempts[a].closeCalled /\ attempts[a].clientClosed /\ attempts[a].transportClosed

\* C35 - registry consistency of MCPManager: whatever loadServer calls have
\* run, successful or failed, `servers` and `serverTools` have the same keys,
\* serverTools.get(n) is the tool list of servers.get(n), and
\* servers.get(n).connected is true exactly when that list is not empty.
C35_RegistryConsistent ==
    \A n \in Servers \cup {UnknownServer} :
        /\ servers[n].present <=> serverTools[n].present
        /\ servers[n].present <=> InSeq(n, serverKeys)
        /\ serverTools[n].tools = servers[n].tools
        /\ servers[n].connected <=> (servers[n].present /\ servers[n].tools # NoTools)

\* The first server was registered with its tools; the second one answered
\* with a list that has a null entry and was registered as failed.
C35_Witness ==
    /\ servers[ConfigOrder[1]].connected
    /\ servers[ConfigOrder[2]].present /\ ~servers[ConfigOrder[2]].connected
    /\ \E c \in CallIds :
          /\ calls[c].kind = "discover" /\ calls[c].server = ConfigOrder[2]
          /\ calls[c].outcome = "resolved" /\ calls[c].tools = BrokenTools
          /\ ~calls[c].awaited

\* A server whose discovery timed out is registered in both maps without tools.
C35_WitnessFailed ==
    \E c \in CallIds :
        /\ calls[c].kind = "discover" /\ calls[c].cause = "timeout" /\ ~calls[c].awaited
        /\ servers[calls[c].server].present /\ serverTools[calls[c].server].present
        /\ servers[calls[c].server].tools = NoTools

\* The child process of call c has been killed or has ended, or the call has settled.
Terminated(c) ==
    /\ calls[c].kind # "none"
    /\ \/ calls[c].outcome # "pending"
       \/ calls[c].killed
       \/ calls[c].proc = "closed"

\* C36 - no write after termination: once the child process of a call has
\* been killed or has closed, or the call has settled, nothing more is written
\* to the stdin of that process; the send timers still pending have no effect.
C36_NoWriteAfterTermination ==
    [][\A c \in CallIds :
          (Terminated(c) /\ calls'[c].kind = calls[c].kind)
          => calls'[c].written = calls[c].written]_vars

\* While the process is running and the call is pending the three messages
\* of an invocation are written.
C36_WrittenWhileRunning ==
    \E c \in CallIds :
        /\ calls[c].kind = "execute" /\ ~Terminated(c)
        /\ calls[c].written = <<"initialize", "notifications/initialized", "tools/call">>

\* The discoveries whose child process is alive / whose promise is pending.
AliveDiscoveries == {c \in CallIds : calls[c].kind = "discover" /\ calls[c].proc = "alive"}
PendingDiscoveries == {c \in CallIds : calls[c].kind = "discover" /\ calls[c].outcome = "pending"}

\* In this step a discovery is started in call slot c.
DiscoveryStarts(c) == calls[c].kind = "none" /\ calls'[c].kind = "discover"

\* The servers are registered in configuration order.
C37_ConfigurationOrder ==
    /\ Len(serverKeys) <= Len(ConfigOrder)
    /\ \A i \in 1..Len(serverKeys) : serverKeys[i] = ConfigOrder[i]

\* A discovery is started only when no earlier discovery is pending, every
\* earlier server has been registered, and it is the discovery of the next one.
C37_StartsAfterSettlement ==
    \A c \in CallIds :
        DiscoveryStarts(c)
        => /\ PendingDiscoveries = {}
           /\ Len(serverKeys) < Len(ConfigOrder)
           /\ calls'[c].server = ConfigOrder[Len(serverKeys) + 1]

Registries == <<servers, serverKeys, serverTools, connectedServers, connectedKeys,
                connectionPromises>>

\* In this step MCPManager.executeServerTool is called, in slot c, with a name
\* absent from `servers`: it rejects with 'not found', nothing is spawned and
\* no timer is set, and no registry changes.
C38_MgrUnknownRejected ==
    \A c \in CallIds :
        (calls[c].kind = "none" /\ calls'[c].kind = "execute"
            /\ ~servers[calls'[c].server].present)
        => /\ calls'[c].outcome = "rejected" /\ calls'[c].value = "notFound"
           /\ calls'[c].proc = "none" /\ calls'[c].timers = {}
           /\ Registries' = Registries

\* A call of LazyMCPManager.getToolsFromServer that is rejected with 'not
\* found' changes no registry and starts nothing.
C38_LazyRejectedNoEffect ==
    \A c \in Callers :
        (caller'[c].pc = "notFound" /\ caller'[c] # caller[c])
        => (Registries' = Registries /\ attempts' = attempts)

\* No connection attempt is ever made for a name absent from the
\* configuration, and no map has an entry for such a name.
C38_NoAttemptForUnknown ==
    /\ \A a \in AttemptIds : attempts[a].st # "unused" => attempts[a].server \in config
    /\ \A s \in LazyNames \ config :
          connectedServers[s] = None /\ connectionPromises[s] = None

\* C38 - unknown server names fail without side effects:
\* MCPManager.executeServerTool for a name absent from `servers` and
\* LazyMCPManager.getToolsFromServer for a name absent from the configuration
\* reject with 'not found', start no child process and no connection attempt,
\* and leave servers, serverTools, connectedServers and connectionPromises as
\* they were.
C38_UnknownNamesRejected ==
    /\ []C38_NoAttemptForUnknown
    /\ [][C38_MgrUnknownRejected /\ C38_LazyRejectedNoEffect]_vars

\* The part of C38 that concerns MCPManager and the names LazyMCPManager rejects.
C38_RejectedWithoutEffect ==
    [][C38_MgrUnknownRejected /\ C38_LazyRejectedNoEffect]_vars

\* Both managers have rejected an unknown name.
C38_BothRejected ==
    /\ \E c \in Callers : caller[c].pc = "notFound"
    /\ \E c \in CallIds : calls[c].kind = "execute" /\ calls[c].value = "notFound"

====
